---- MODULE Spec2Model ----
(***************************************************************************)
(* Cursor-history pagination, pagination controls and sort toggling of the *)
(* convex-table package and its Next.js demo application, with the URL     *)
(* parameter parser, page-mode pagination, the table state hooks, the      *)
(* debounced search inputs and the Convex pagination helpers.              *)
(*                                                                         *)
(* Representation.  A JavaScript string is a sequence of one-character     *)
(* strings (<<"n","u","l","l">> is "null").  The values `undefined` and    *)
(* `null` are the one-element sequences Undefined and Null, whose element  *)
(* is not a character, so that every value stays comparable.  A JavaScript *)
(* number is a record [nan, v]: v counts units of 1/Scale and names the     *)
(* double nearest to that decimal; +Infinity and -Infinity are the values   *)
(* v = InfV and v = -InfV.  Sums and products are defined where the double  *)
(* arithmetic of the program is exact: on numbers whose fraction is a sum   *)
(* of halves, quarters, eighths, ...                                        *)
(***************************************************************************)
EXTENDS Integers, Sequences, FiniteSets

\* ------------------------------------------------------------ bounds ----
\* longest raw `page` query-string value that is enumerated
MaxRawLen == 3
\* most comma-separated tokens of an enumerated raw `cursors` value
MaxTokens == 3
\* renders are explored while the decoded history is at most this long
MaxHist == 3

\* ----------------------------------------------------- JS primitives ----
Undefined == <<"undefined">>
Null == <<"null-value">>

Digits == {"0", "1", "2", "3", "4", "5", "6", "7", "8", "9"}

DigitVal(c) ==
    CASE c = "0" -> 0 [] c = "1" -> 1 [] c = "2" -> 2 [] c = "3" -> 3
      [] c = "4" -> 4 [] c = "5" -> 5 [] c = "6" -> 6 [] c = "7" -> 7
      [] c = "8" -> 8 [] c = "9" -> 9

DigitChar(d) ==
    CASE d = 0 -> "0" [] d = 1 -> "1" [] d = 2 -> "2" [] d = 3 -> "3"
      [] d = 4 -> "4" [] d = 5 -> "5" [] d = 6 -> "6" [] d = 7 -> "7"
      [] d = 8 -> "8" [] d = 9 -> "9"

RECURSIVE Pow10(_)
Pow10(n) == IF n = 0 THEN 1 ELSE 10 * Pow10(n - 1)

\* number of decimal places kept: no enumerated string has more
ScaleDigits == MaxRawLen
Scale == Pow10(ScaleDigits)

NaN == [nan |-> TRUE, v |-> 0]
Num(v) == [nan |-> FALSE, v |-> v]

\* +Infinity: its v lies above every finite value, so that comparisons need no
\* special case
InfV == 2 * Pow10(9)
Infinity == Num(InfV)
IsFinite(n) == ~n.nan /\ n.v # InfV /\ n.v # 0 - InfV

\* the finite number of v units; a magnitude of InfV units or more has no
\* value here
FiniteNum(v) == CASE v < InfV /\ v > 0 - InfV -> Num(v)

RECURSIVE Pow5(_)
Pow5(n) == IF n = 0 THEN 1 ELSE 5 * Pow5(n - 1)

\* the decimal n is a double exactly: a multiple of 1/2^ScaleDigits
Dyadic(n) == IsFinite(n) /\ n.v % Pow5(ScaleDigits) = 0
\* the integer k as a number
Int2Num(k) == Num(k * Scale)

\* JS truthiness of a string-or-undefined-or-null value
TruthyStr(s) == s # Undefined /\ s # Null /\ s # <<>>
\* JS truthiness of a number
TruthyNum(n) == ~n.nan /\ n.v # 0

RECURSIVE DigitsValue(_)
DigitsValue(s) ==
    IF s = <<>> THEN 0
    ELSE 10 * DigitsValue(SubSeq(s, 1, Len(s) - 1)) + DigitVal(s[Len(s)])

MaxOf(a, b) == IF a >= b THEN a ELSE b
MinOf(a, b) == IF a <= b THEN a ELSE b

\* Strings are sequences of one-character strings over ASCII; a character
\* outside ASCII has no name in a module and no string with one is modelled.
VerticalTab == ""

\* The ASCII white space StringToNumber, parseInt and trim strip: space, tab,
\* line feed, carriage return, form feed and vertical tab (U+000B).
WhiteSpace == {" ", "\t", "\n", "\r", "\f", VerticalTab}

Quote == "\""
Backslash == "\\"
Letters ==
    { "a", "b", "c", "d", "e", "f", "g", "h", "i", "j", "k", "l", "m",
      "n", "o", "p", "q", "r", "s", "t", "u", "v", "w", "x", "y", "z",
      "A", "B", "C", "D", "E", "F", "G", "H", "I", "J", "K", "L", "M",
      "N", "O", "P", "Q", "R", "S", "T", "U", "V", "W", "X", "Y", "Z" }

\* the characters that have a name here: ASCII letters, digits, punctuation
\* (but for the grave accent) and white space
Ascii ==
    Letters \cup Digits \cup WhiteSpace \cup
    { "!", Quote, "#", "$", "%", "&", "'", "(", ")", "*", "+", ",", "-", ".", "/",
      ":", ";", "<", "=", ">", "?", "@", "[", Backslash, "]", "^", "_", "{",
      "|", "}", "~" }

RECURSIVE TrimStart(_)
TrimStart(s) ==
    IF s # <<>> /\ s[1] \in WhiteSpace THEN TrimStart(Tail(s)) ELSE s

RECURSIVE TrimEnd(_)
TrimEnd(s) ==
    IF s # <<>> /\ s[Len(s)] \in WhiteSpace
    THEN TrimEnd(SubSeq(s, 1, Len(s) - 1)) ELSE s

Trim(s) == TrimEnd(TrimStart(s))

\* the value of a digit of a hexadecimal, octal or binary literal
HexDigits ==
    Digits \cup {"a", "b", "c", "d", "e", "f", "A", "B", "C", "D", "E", "F"}
HexVal(c) ==
    CASE c \in Digits -> DigitVal(c)
      [] c \in {"a", "A"} -> 10 [] c \in {"b", "B"} -> 11 [] c \in {"c", "C"} -> 12
      [] c \in {"d", "D"} -> 13 [] c \in {"e", "E"} -> 14 [] c \in {"f", "F"} -> 15

\* the radix a literal's prefix 0x, 0o or 0b names, 10 without a prefix
RadixOf(t) ==
    IF Len(t) >= 3 /\ t[1] = "0"
    THEN CASE t[2] \in {"x", "X"} -> 16
           [] t[2] \in {"o", "O"} -> 8
           [] t[2] \in {"b", "B"} -> 2
           [] OTHER -> 10
    ELSE 10

RECURSIVE RadixValue(_, _)
RadixValue(s, radix) ==
    IF s = <<>> THEN 0
    ELSE radix * RadixValue(SubSeq(s, 1, Len(s) - 1), radix) + HexVal(s[Len(s)])

\* StrUnsignedDecimalLiteral without the exponent: digits with at most one
\* "." and at least one digit
DecimalOk(m) ==
    /\ \A i \in DOMAIN m : m[i] \in Digits \cup {"."}
    /\ Cardinality({i \in DOMAIN m : m[i] = "."}) <= 1
    /\ \E i \in DOMAIN m : m[i] \in Digits

RECURSIVE DropZeros(_)
\* the digits without the zeros at their end
DropZeros(fp) ==
    IF fp # <<>> /\ fp[Len(fp)] = "0" THEN DropZeros(SubSeq(fp, 1, Len(fp) - 1))
    ELSE fp

\* the value of a decimal, in units of 1/Scale; a decimal with more than
\* ScaleDigits places has no value here
DecimalValue(m) ==
    LET dots == {i \in DOMAIN m : m[i] = "."}
        d    == IF dots = {} THEN Len(m) + 1 ELSE CHOOSE i \in dots : TRUE
        ip   == SubSeq(m, 1, d - 1)
        fp   == DropZeros(SubSeq(m, d + 1, Len(m)))
    IN CASE Len(fp) <= ScaleDigits ->
              DigitsValue(ip) * Scale + DigitsValue(fp) * Pow10(ScaleDigits - Len(fp))

\* the exponent of a decimal literal, the text after its "e": an optional sign
\* and at least one digit
ExponentOk(ex) ==
    LET digs == IF ex # <<>> /\ ex[1] \in {"-", "+"} THEN Tail(ex) ELSE ex
    IN digs # <<>> /\ \A i \in DOMAIN digs : digs[i] \in Digits

\* mag * 10^ex; a quotient that is not a whole number of units has no value
\* here
ScaleByExponent(mag, ex) ==
    IF ex[1] = "-"
    THEN CASE mag % Pow10(DigitsValue(Tail(ex))) = 0 ->
                 mag \div Pow10(DigitsValue(Tail(ex)))
    ELSE IF ex[1] = "+" THEN mag * Pow10(DigitsValue(Tail(ex)))
    ELSE mag * Pow10(DigitsValue(ex))

InfinityText == <<"I", "n", "f", "i", "n", "i", "t", "y">>

\* StrUnsignedDecimalLiteral: Infinity, or a decimal with an optional exponent
UnsignedDecimal(body) ==
    LET es == {i \in DOMAIN body : body[i] \in {"e", "E"}}
    IN IF body = InfinityText THEN Infinity
       ELSE IF es = {}
       THEN IF DecimalOk(body) THEN FiniteNum(DecimalValue(body)) ELSE NaN
       ELSE LET e == CHOOSE i \in es : \A j \in es : i <= j
            IN IF DecimalOk(SubSeq(body, 1, e - 1))
                  /\ ExponentOk(SubSeq(body, e + 1, Len(body)))
               THEN FiniteNum(ScaleByExponent(DecimalValue(SubSeq(body, 1, e - 1)),
                                              SubSeq(body, e + 1, Len(body))))
               ELSE NaN

\* a hexadecimal, octal or binary integer literal, which takes no sign
RadixLiteral(t) ==
    IF \A i \in 3..Len(t) : t[i] \in HexDigits /\ HexVal(t[i]) < RadixOf(t)
    THEN FiniteNum(RadixValue(SubSeq(t, 3, Len(t)), RadixOf(t)) * Scale)
    ELSE NaN

Negate(n) == IF n.nan THEN NaN ELSE Num(0 - n.v)

\* the first and the last character of t are in Ascii
EdgesKnown(t) == t = <<>> \/ (t[1] \in Ascii /\ t[Len(t)] \in Ascii)

\* StringToNumber of a string without white space around it
StringToNumber(t) ==
    IF t = <<>> THEN Num(0)
    ELSE IF RadixOf(t) # 10 THEN RadixLiteral(t)
    ELSE IF t[1] = "-" THEN Negate(UnsignedDecimal(Tail(t)))
    ELSE IF t[1] = "+" THEN UnsignedDecimal(Tail(t))
    ELSE UnsignedDecimal(t)

\* Number(x) for x undefined, null or a string: white space around the literal
\* is skipped, the empty literal is 0, a literal is a hexadecimal, octal or
\* binary integer without sign, or Infinity or a decimal with an optional sign
\* and an optional exponent.  A finite value has at most ScaleDigits decimal
\* places and lies below InfV / Scale; a literal of another value has no value
\* here.  Whether a character outside Ascii is white space is not known
\* here, and a string with one at an end of its literal has no value either.
ToNumber(s) ==
    CASE s = Undefined -> NaN
      [] s = Null -> Num(0)
      [] s \notin {Undefined, Null} /\ EdgesKnown(Trim(s)) -> StringToNumber(Trim(s))

RECURSIVE NatToStr(_)
NatToStr(k) ==
    IF k < 10 THEN <<DigitChar(k)>>
    ELSE Append(NatToStr(k \div 10), DigitChar(k % 10))

RECURSIVE FracToStr(_, _)
\* the digits of f/10^n without trailing zeros
FracToStr(f, n) ==
    IF f = 0 \/ n = 0 THEN <<>>
    ELSE <<DigitChar(f \div Pow10(n - 1))>> \o FracToStr(f % Pow10(n - 1), n - 1)

\* String(n)
NumToStr(n) ==
    LET mag == IF n.v < 0 THEN 0 - n.v ELSE n.v
        ip  == NatToStr(mag \div Scale)
        fp  == FracToStr(mag % Scale, ScaleDigits)
        abs == IF mag = InfV THEN InfinityText
               ELSE IF fp = <<>> THEN ip ELSE ip \o <<".">> \o fp
    IN IF n.nan THEN <<"N", "a", "N">>
       ELSE IF n.v < 0 THEN <<"-">> \o abs ELSE abs

\* a < b, a > b, a <= b, a >= b: false when an operand is NaN
NumLt(a, b) == ~a.nan /\ ~b.nan /\ a.v < b.v
NumGt(a, b) == ~a.nan /\ ~b.nan /\ a.v > b.v
NumLe(a, b) == ~a.nan /\ ~b.nan /\ a.v <= b.v
NumGe(a, b) == ~a.nan /\ ~b.nan /\ a.v >= b.v

MathMin(a, b) == IF a.nan \/ b.nan THEN NaN ELSE IF a.v <= b.v THEN a ELSE b
MathMax(a, b) == IF a.nan \/ b.nan THEN NaN ELSE IF a.v >= b.v THEN a ELSE b

\* a + b.  The sum of two doubles is exact, and so the decimal sum, when both
\* are multiples of 1/2^ScaleDigits or one of them is 0; the sum of other
\* finite numbers is a double this representation cannot name and has no
\* value here.
NumAdd(a, b) ==
    CASE a.nan \/ b.nan -> NaN
      [] ~a.nan /\ ~b.nan /\ ~IsFinite(a) ->
            IF ~IsFinite(b) /\ b.v # a.v THEN NaN ELSE a
      [] IsFinite(a) /\ ~b.nan /\ ~IsFinite(b) -> b
      [] IsFinite(a) /\ IsFinite(b)
           /\ ((Dyadic(a) /\ Dyadic(b)) \/ a.v = 0 \/ b.v = 0) -> FiniteNum(a.v + b.v)

\* a - b
NumSub(a, b) == NumAdd(a, IF b.nan THEN NaN ELSE Num(0 - b.v))

\* the sign of a number that is not NaN
SignOf(n) == IF n.v > 0 THEN 1 ELSE IF n.v < 0 THEN 0 - 1 ELSE 0

\* a * b.  The product is exact when both are multiples of 1/2^ScaleDigits
\* and the product has at most ScaleDigits decimal places; another product of
\* finite numbers has no value here.
NumMul(a, b) ==
    CASE a.nan \/ b.nan -> NaN
      [] ~a.nan /\ ~b.nan /\ (~IsFinite(a) \/ ~IsFinite(b)) ->
            IF SignOf(a) * SignOf(b) = 0 THEN NaN
            ELSE Num(SignOf(a) * SignOf(b) * InfV)
      [] IsFinite(a) /\ IsFinite(b) /\ Dyadic(a) /\ Dyadic(b)
           /\ (a.v * (b.v % Scale)) % Scale = 0 ->
            FiniteNum(a.v * (b.v \div Scale) + (a.v * (b.v % Scale)) \div Scale)

RECURSIVE Split(_, _)
\* s.split(sep) for a one-character separator
Split(s, sep) ==
    LET hits == {i \in DOMAIN s : s[i] = sep}
    IN IF hits = {} THEN <<s>>
       ELSE LET i == CHOOSE j \in hits : \A k \in hits : j <= k
            IN <<SubSeq(s, 1, i - 1)>> \o Split(SubSeq(s, i + 1, Len(s)), sep)

RECURSIVE Join(_, _)
\* parts.join(sep)
Join(parts, sep) ==
    IF parts = <<>> THEN <<>>
    ELSE IF Len(parts) = 1 THEN parts[1]
    ELSE parts[1] \o <<sep>> \o Join(Tail(parts), sep)

\* array[i] for a number i: undefined unless i is an integer index in range
ArrayAt(arr, i) ==
    IF ~i.nan /\ i.v % Scale = 0 /\ i.v \div Scale >= 0 /\ i.v \div Scale < Len(arr)
    THEN arr[i.v \div Scale + 1]
    ELSE Undefined

\* ------------------------------------------------- cursor-history page ----
\* the literal "null" and the separator of the `cursors` parameter
NullToken == <<"n", "u", "l", "l">>
Comma == ","

\* variant: no "null" default for an absent parameter
DecodeCursors_NoDefault(raw) ==
    LET parts == Split(IF TruthyStr(raw) THEN raw ELSE <<>>, Comma)
    IN [i \in 1..Len(parts) |-> IF parts[i] = NullToken THEN Null ELSE parts[i]]

\* const cursorsParam = params.cursors || "null";
\* cursorsParam.split(",").map((c) => (c === "null" ? null : c))
DecodeCursors(raw) ==
    LET cursorsParam == IF TruthyStr(raw) THEN raw ELSE NullToken
        parts == Split(cursorsParam, Comma)
    IN [i \in 1..Len(parts) |-> IF parts[i] = NullToken THEN Null ELSE parts[i]]

\* variant: the history joined as it is, an absent cursor written as the empty string
EncodeCursors_JoinOnly(hist) ==
    Join([i \in 1..Len(hist) |-> IF hist[i] = Null THEN <<>> ELSE hist[i]], Comma)

\* updatedCursorHistory.map((c) => c || "null").join(",")
EncodeCursors(hist) ==
    Join([i \in 1..Len(hist) |-> IF TruthyStr(hist[i]) THEN hist[i] ELSE NullToken],
         Comma)

\* const requestedPage = Number(params.page) || 1;
RequestedPage(rawPage) ==
    LET n == ToNumber(rawPage) IN IF TruthyNum(n) THEN n ELSE Int2Num(1)

\* variant: no lower bound
ClampPage_NoFloor(requestedPage, cursorHistory) ==
    MathMin(requestedPage, Int2Num(Len(cursorHistory)))

\* variant: no upper bound
ClampPage_NoCeiling(requestedPage, cursorHistory) ==
    MathMax(Int2Num(1), requestedPage)

\* Math.max(1, Math.min(requestedPage, cursorHistory.length))
ClampPage(requestedPage, cursorHistory) ==
    MathMax(Int2Num(1), MathMin(requestedPage, Int2Num(Len(cursorHistory))))

\* variant: the 1-indexed page used as the 0-indexed array index
CursorForPage_OffByOne(cursorHistory, currentPage) ==
    LET e == ArrayAt(cursorHistory, currentPage)
    IN IF TruthyStr(e) THEN e ELSE Null

\* const cursor = cursorHistory[currentPage - 1] || null;
CursorForPage(cursorHistory, currentPage) ==
    LET e == ArrayAt(cursorHistory, NumSub(currentPage, Int2Num(1)))
    IN IF TruthyStr(e) THEN e ELSE Null

\* variant: isDone not consulted
ShouldExtend_IgnoreDone(cursorHistory, currentPage, users) ==
    /\ TruthyStr(users.continueCursor)
    /\ currentPage = Int2Num(Len(cursorHistory))

\* if (users.continueCursor && currentPage === cursorHistory.length && !users.isDone)
ShouldExtend(cursorHistory, currentPage, users) ==
    /\ TruthyStr(users.continueCursor)
    /\ currentPage = Int2Num(Len(cursorHistory))
    /\ ~users.isDone

\* variant: every next cursor pushed
UpdatedCursorHistory_PushAlways(cursorHistory, currentPage, users) ==
    IF TruthyStr(users.continueCursor)
    THEN Append(cursorHistory, users.continueCursor)
    ELSE cursorHistory

\* updatedCursorHistory: a copy of the history, the next cursor pushed at the frontier
UpdatedCursorHistory(cursorHistory, currentPage, users) ==
    IF ShouldExtend(cursorHistory, currentPage, users)
    THEN Append(cursorHistory, users.continueCursor)
    ELSE cursorHistory

\* One server render of the page for the query string params and the backend's
\* answer users = [continueCursor, isDone]: everything the page computes.
ConvexTable(params, users) ==
    LET cursorHistory == DecodeCursors(params.cursors)
        currentPage   == ClampPage(RequestedPage(params.page), cursorHistory)
        updated       == UpdatedCursorHistory(cursorHistory, currentPage, users)
    IN [ shown                |-> TRUE,
         params               |-> params,
         cursorHistory        |-> cursorHistory,
         currentPage          |-> currentPage,
         cursor               |-> CursorForPage(cursorHistory, currentPage),
         users                |-> users,
         updatedCursorHistory |-> updated,
         maxPageReached       |-> Len(updated),
         hasMore              |-> ~users.isDone,
         written              |-> EncodeCursors(updated) ]

\* nothing rendered yet
NoView ==
    [ shown |-> FALSE, params |-> [page |-> Undefined, cursors |-> Undefined],
      cursorHistory |-> <<>>, currentPage |-> NaN, cursor |-> Null,
      users |-> [continueCursor |-> Null, isDone |-> TRUE],
      updatedCursorHistory |-> <<>>, maxPageReached |-> 0, hasMore |-> FALSE,
      written |-> <<>> ]

\* ------------------------------------------------- pagination controls ----
\* goToPage: params.set("page", String(newPage)); router.push
GoToPage(searchParams, newPage) ==
    [searchParams EXCEPT !.page = NumToStr(newPage)]

\* Next.js cursor-history TablePagination: const isFirstPage = currentPage === 1
NextIsFirstPage(currentPage) == currentPage = Int2Num(1)

\* const canGoNext = hasMore || currentPage < maxPageReached
NextCanGoNext(hasMore, currentPage, maxPageReached) ==
    hasMore \/ NumLt(currentPage, Int2Num(maxPageReached))

\* the disabled attribute of the three buttons
NextTablePagination(props) ==
    [ first    |-> NextIsFirstPage(props.currentPage),
      previous |-> NextIsFirstPage(props.currentPage),
      next     |-> ~NextCanGoNext(props.hasMore, props.currentPage, props.maxPageReached) ]

\* the click handlers: whether router.push is called, and with which parameters
NextGoToFirst(searchParams) ==
    [pushed |-> TRUE, params |-> GoToPage(searchParams, Int2Num(1))]

NextGoToPrevious(searchParams, currentPage) ==
    IF NumGt(currentPage, Int2Num(1))
    THEN [pushed |-> TRUE, params |-> GoToPage(searchParams, NumSub(currentPage, Int2Num(1)))]
    ELSE [pushed |-> FALSE, params |-> searchParams]

NextGoToNext(searchParams, hasMore, currentPage, maxPageReached) ==
    IF hasMore \/ NumLt(currentPage, Int2Num(maxPageReached))
    THEN [pushed |-> TRUE, params |-> GoToPage(searchParams, NumAdd(currentPage, Int2Num(1)))]
    ELSE [pushed |-> FALSE, params |-> searchParams]

\* React TablePagination
ReactCanGoPrevious(currentPage) == NumGt(currentPage, Int2Num(1))
ReactCanGoNext(hasMore, currentPage, maxPageReached) ==
    hasMore \/ NumLt(currentPage, Int2Num(maxPageReached))
ReactCanGoFirst(currentPage) == NumGt(currentPage, Int2Num(1))

ReactTablePagination(props) ==
    [ first    |-> ~ReactCanGoFirst(props.currentPage),
      previous |-> ~ReactCanGoPrevious(props.currentPage),
      next     |-> ~ReactCanGoNext(props.hasMore, props.currentPage, props.maxPageReached) ]

\* ----------------------------------------------------------- sorting ----
Asc == <<"a", "s", "c">>
Desc == <<"d", "e", "s", "c">>

\* React useTableState.toggleSort: the state updater
ReactToggleSort(st, columnKey) ==
    IF st.sortBy = columnKey
    THEN IF st.sortOrder = Asc
         THEN [st EXCEPT !.sortBy = columnKey, !.sortOrder = Desc]
         ELSE [st EXCEPT !.sortBy = Undefined, !.sortOrder = Asc]
    ELSE [st EXCEPT !.sortBy = columnKey, !.sortOrder = Asc]

\* Next.js useTableState: the sort part of the state parsed from the URL
HookSortState(searchParams) ==
    [ sortBy    |-> IF TruthyStr(searchParams.sortBy) THEN searchParams.sortBy
                    ELSE Undefined,
      sortOrder |-> IF TruthyStr(searchParams.sortOrder) THEN searchParams.sortOrder
                    ELSE Asc ]

\* updateParams for the keys sortBy and sortOrder of `updates` (both present in
\* every call the sort actions make): set when defined, delete when undefined
UpdateSortParams(searchParams, updates) ==
    [searchParams EXCEPT !.sortBy = updates.sortBy, !.sortOrder = updates.sortOrder]

\* Next.js useTableState.toggleSort
HookToggleSort(searchParams, columnKey) ==
    LET state == HookSortState(searchParams)
    IN IF state.sortBy = columnKey
       THEN IF state.sortOrder = Asc
            THEN UpdateSortParams(searchParams, [sortBy |-> columnKey, sortOrder |-> Desc])
            ELSE UpdateSortParams(searchParams,
                                  [sortBy |-> Undefined, sortOrder |-> Undefined])
       ELSE UpdateSortParams(searchParams, [sortBy |-> columnKey, sortOrder |-> Asc])

\* the props a page hands to the Next.js TableHeader (README server page)
HeaderProps(searchParams) ==
    [ sortBy    |-> searchParams.sortBy,
      sortOrder |-> IF TruthyStr(searchParams.sortOrder) THEN searchParams.sortOrder
                    ELSE Asc ]

\* Next.js TableHeader.handleSort
HeaderHandleSort(searchParams, props, columnKey) ==
    IF props.sortBy = columnKey
    THEN IF props.sortOrder = Asc
         THEN [searchParams EXCEPT !.sortBy = columnKey, !.sortOrder = Desc]
         ELSE [searchParams EXCEPT !.sortBy = Undefined, !.sortOrder = Undefined]
    ELSE [searchParams EXCEPT !.sortBy = columnKey, !.sortOrder = Asc]

\* --------------------------------------------------------------- state ----
VARIABLES
    url,        \* query string of the cursor-history page: [page, cursors]
    view,       \* what the last server render computed and sent (NoView before)
    prev,       \* the render before, when the last one repeated its navigation
    pending,    \* `cursors` value of the inline script not yet run (Undefined: none)
    maxShown,   \* highest effective page rendered so far, in units of 1/Scale
    plain,      \* no cursor answered so far holds a comma or a backslash
    pag,        \* a rendered pagination component: its props and disabled flags
    nav,        \* outcome of the last click on a pagination control
    impl,       \* the sort implementation in use: "react", "hook" or "header"
    sort,       \* its store: the React state, or the URL's sortBy and sortOrder
    shown,      \* the store as of the component's last render
    trail,      \* the sort clicks so far: column, sort state before and after
    parse,      \* a parseTableParams call: its argument and what it returned
    pmode,      \* a page-mode pagination component: props, buttons, last click
    table,      \* a table state store (React state or URL) and the last operation
    sinput,     \* a SearchInput: text, timers, parent store, updates emitted
    pgn,        \* a paginateResults call: list, page, pageSize and the result
    hdr,        \* a TableHeader with the sort state behind it, and the clicks so far
    ses,        \* a session on the cursor-history page with search and page size
    cmp,        \* one query string read by each of the three parsers
    walk,       \* a list paged through with paginateResults, cursor by cursor
    built       \* a table state written by buildTableParams and parsed again

cursorVars == <<url, view, prev, pending, maxShown, plain>>
controlVars == <<pag, nav>>
sortVars == <<impl, sort, shown, trail>>
moreVars == <<hdr, ses, cmp, walk, built>>
extVars == <<parse, pmode, table, sinput, pgn, moreVars>>
baseVars == <<cursorVars, controlVars, sortVars>>
vars == <<cursorVars, controlVars, sortVars, extVars>>

NoProps ==
    [ currentPage |-> NaN, maxPageReached |-> 0, hasMore |-> FALSE,
      react |-> [first |-> TRUE, previous |-> TRUE, next |-> TRUE],
      next  |-> [first |-> TRUE, previous |-> TRUE, next |-> TRUE] ]
NoNav == [impl |-> "none", control |-> "none", pushed |-> FALSE, page |-> Undefined]
NoSort == [sortBy |-> Undefined, sortOrder |-> Undefined]

CursorIdle ==
    /\ url = [page |-> Undefined, cursors |-> Undefined]
    /\ view = NoView
    /\ prev = NoView
    /\ pending = Undefined
    /\ maxShown = 0
    /\ plain = TRUE
ControlIdle == pag = NoProps /\ nav = NoNav
SortIdle == impl = "none" /\ sort = NoSort /\ shown = NoSort /\ trail = <<>>

NoParams ==
    [ page |-> Undefined, pageSize |-> Undefined, sortBy |-> Undefined,
      sortOrder |-> Undefined, search |-> Undefined ]
NoCall == [called |-> FALSE, searchParams |-> NoParams, state |-> NoParams]
ParseIdle == parse = NoCall
NoPageMode ==
    [ impl |-> "none", mounted |-> FALSE, rendered |-> FALSE, store |-> NaN,
      page |-> NaN, pageSize |-> 0, totalCount |-> 0, totalPages |-> 0,
      disabled |-> [previous |-> TRUE, next |-> TRUE],
      start |-> NaN, clicked |-> "none", from |-> NaN ]
PageModeIdle == pmode = NoPageMode
NoTable ==
    [ impl |-> "none", store |-> NoParams, op |-> "none", before |-> NoParams,
      num |-> NaN, key |-> Undefined, order |-> Undefined, text |-> Undefined ]
TableIdle == table = NoTable
NoInput ==
    [ impl |-> "none", text |-> <<>>, store |-> [page |-> Undefined, search |-> Undefined],
      timers |-> {}, timeoutId |-> 0, nextId |-> 1, inflight |-> <<>>,
      emitted |-> <<>>, keys |-> 0, burst |-> 0, last |-> "none" ]
InputIdle == sinput = NoInput
NoResult == [page |-> <<>>, isDone |-> TRUE, continueCursor |-> Null]
NoPaginate ==
    [ called |-> FALSE, allResults |-> <<>>, page |-> NaN, pageSize |-> NaN,
      result |-> NoResult ]
PaginateIdle == pgn = NoPaginate
NoHeader == [impl |-> "none", store |-> NoSort, rendered |-> NoSort, clicks |-> <<>>]
HeaderIdle == hdr = NoHeader
NoSession ==
    [ started |-> FALSE,
      url |-> [ page |-> Undefined, cursors |-> Undefined, pageSize |-> Undefined,
                search |-> Undefined ],
      view |-> NoView, request |-> [numItems |-> NaN, cursor |-> Null, search |-> Undefined],
      pending |-> Undefined, issued |-> {},
      nav |-> [control |-> "none", from |-> NaN, served |-> FALSE], moves |-> 0,
      text |-> <<>>,
      committed |-> [ page |-> Undefined, cursors |-> Undefined,
                      pageSize |-> Undefined, search |-> Undefined ],
      mounted |-> FALSE, timer |-> FALSE ]
SessionIdle == ses = NoSession
NoComparison ==
    [ called |-> FALSE, searchParams |-> NoParams, parsed |-> NoParams,
      hook |-> NoParams, inline |-> [page |-> NaN, pageSize |-> NaN] ]
ComparisonIdle == cmp = NoComparison
NoWalk ==
    [ started |-> FALSE, allResults |-> <<>>, numItems |-> NaN, cursor |-> Null,
      pages |-> <<>>, calls |-> 0, done |-> FALSE,
      result |-> [page |-> <<>>, isDone |-> TRUE, continueCursor |-> Null] ]
WalkIdle == walk = NoWalk
NoBuilt == [called |-> FALSE, state |-> NoParams, params |-> NoParams, parsed |-> NoParams]
BuiltIdle == built = NoBuilt
MoreIdle == HeaderIdle /\ SessionIdle /\ ComparisonIdle /\ WalkIdle /\ BuiltIdle
OldIdle ==
    /\ CursorIdle /\ ControlIdle /\ SortIdle
    /\ ParseIdle /\ PageModeIdle /\ TableIdle /\ InputIdle /\ PaginateIdle
ExtIdle ==
    ParseIdle /\ PageModeIdle /\ TableIdle /\ InputIdle /\ PaginateIdle /\ MoreIdle

\* ------------------------------------------------------- input domains ----
PageChars == {"0", "2", "5", "-", "."}

RECURSIVE StringsUpTo(_, _)
\* all strings over chars of length at most n
StringsUpTo(chars, n) ==
    IF n = 0 THEN {<<>>}
    ELSE LET shorter == StringsUpTo(chars, n - 1)
         IN shorter \cup {Append(s, c) : s \in shorter, c \in chars}

\* raw values of the `page` parameter: absent, the strings of PageChars that
\* are no number or a multiple of 1/2^ScaleDigits (2.5, .25, -.5, ...; the page
\* arithmetic on another fraction such as 2.2 has no value here), a page
\* with a "+" sign or white space before it (?page=+2 decodes to " 2"), and
\* Infinity
RawPages ==
    {Undefined, <<"+", "2">>, <<" ", "2">>, InfinityText}
        \cup {s \in StringsUpTo(PageChars, MaxRawLen) :
                 ToNumber(s).nan \/ Dyadic(ToNumber(s))}

\* tokens of an enumerated raw `cursors` value
CursorTokens == {NullToken, <<"5">>}

RECURSIVE TokenLists(_)
TokenLists(n) ==
    IF n = 1 THEN {<<t>> : t \in CursorTokens}
    ELSE LET shorter == TokenLists(n - 1)
         IN shorter \cup {Append(l, t) : l \in shorter, t \in CursorTokens}

\* the history string of the documented example, "null,5,12"
ExampleCursors == <<"n", "u", "l", "l", ",", "5", ",", "1", "2">>

\* raw values of the `cursors` parameter: absent, empty, comma-joined tokens,
\* the example, and strings with empty pieces
RawCursors ==
    {Undefined, <<>>, <<",">>, <<"5", ",", ",", "1", "2">>, ExampleCursors}
        \cup {Join(l, Comma) : l \in TokenLists(MaxTokens)}


\* The page interpolates the encoded history into the source of its inline
\* script, between the quotes of  const cursors = "...";  and the script reads
\* it as a string literal.

\* the character the escape sequence \c of a string literal stands for.
\* \b, \0 to \7, \x.. and \u.... stand for characters that have no name
\* here, and no text with them is modelled.
EscapeValue(c) ==
    CASE c = "n" -> "\n"
      [] c = "t" -> "\t"
      [] c = "r" -> "\r"
      [] c = "f" -> "\f"
      [] c = "v" -> VerticalTab
      [] c \in (Letters \ {"n", "t", "r", "f", "v", "b", "x", "u"})
                  \cup {"8", "9", " ", "-", "_", ".", Comma, Quote, Backslash} -> c

\* characters that stand for themselves in a string literal, the text's
\* letters, digits and punctuation
LiteralChars == Letters \cup Digits \cup {" ", "-", "_", ".", "+", Comma}

\* with a quote in the text the literal ends there and the rest is script
\* source: with nothing but letters, digits, commas, quotes and backslashes
\* around it the source does not parse, or throws where it applies `in` or
\* `instanceof` to a string, and nothing is written
BreaksScript(s) == \A i \in DOMAIN s : s[i] \in Letters \cup Digits \cup {Comma, Quote, Backslash}

RECURSIVE StringLiteral(_)
\* the script's `cursors` for the interpolated text s: [ok |-> FALSE] when the
\* script does not run to its end (a quote, a line end or a last backslash in
\* the text), else the literal's value
StringLiteral(s) ==
    CASE s = <<>> -> [ok |-> TRUE, value |-> <<>>]
      [] s # <<>> /\ s[1] \in {"\n", "\r"} -> [ok |-> FALSE, value |-> <<>>]
      [] s # <<>> /\ s[1] = Quote /\ BreaksScript(s) -> [ok |-> FALSE, value |-> <<>>]
      [] s # <<>> /\ s[1] = Backslash /\ Len(s) = 1 -> [ok |-> FALSE, value |-> <<>>]
      [] s # <<>> /\ s[1] = Backslash /\ Len(s) > 1 ->
            LET rest == StringLiteral(SubSeq(s, 3, Len(s)))
            IN [ok |-> rest.ok, value |-> <<EscapeValue(s[2])>> \o rest.value]
      [] s # <<>> /\ s[1] \in LiteralChars ->
            LET rest == StringLiteral(Tail(s))
            IN [ok |-> rest.ok, value |-> <<s[1]>> \o rest.value]

\* The inline script: if (url.searchParams.get('cursors') !== cursors)
\*   { url.searchParams.set('cursors', cursors); history.replaceState(...) }
\* for the query string params of the window's URL and the interpolated text
InlineScript(params, text) ==
    LET cursors == StringLiteral(text)
    IN IF cursors.ok /\ params.cursors # cursors.value
       THEN [params EXCEPT !.cursors = cursors.value] ELSE params

\* a cursor the encoding and the script hand on as it is
PlainCursor(c) == c = Null \/ \A i \in DOMAIN c : c[i] \notin {Comma, Backslash}

\* what a backend may answer: continueCursor null, "", a token, a token holding
\* the separator, one holding backslashes, one holding a quote; isDone either way
BackendCursors ==
    { Null, <<>>, <<"a">>, <<"a", Comma, "a">>, <<Backslash, Backslash, "a">>,
      <<"a", Quote>> }
BackendAnswers == [continueCursor : BackendCursors, isDone : BOOLEAN]

\* answers whose token survives the comma-joined encoding
PlainCursors == {Null, <<"5">>, <<"1", "2">>}
PlainAnswers == [continueCursor : PlainCursors, isDone : BOOLEAN]

\* --------------------------------------------- cursor-history actions ----

\* The server renders the page for the current query string; the response
\* carries the pagination props and the inline script with the updated history.
RenderWith(answers) ==
    /\ Len(DecodeCursors(url.cursors)) <= MaxHist
    /\ \E users \in answers :
          LET v == ConvexTable(url, users)
          IN /\ view' = v
             /\ prev' = IF view.shown /\ url = InlineScript(view.params, view.written)
                         THEN view ELSE NoView
             /\ pending' = v.written
             /\ maxShown' = MaxOf(maxShown, v.currentPage.v)
             /\ plain' = (plain /\ PlainCursor(users.continueCursor))
    /\ UNCHANGED <<url, controlVars, sortVars, extVars>>

\* the inline script of the last render runs
WriteBack ==
    /\ pending # Undefined
    /\ url' = InlineScript(url, pending)
    /\ pending' = Undefined
    /\ UNCHANGED <<view, prev, maxShown, plain, controlVars, sortVars, extVars>>

\* First: disabled={isFirstPage}, onClick={goToFirst}
ClickFirst ==
    /\ view.shown
    /\ ~NextTablePagination(view).first
    /\ url' = NextGoToFirst(url).params
    /\ UNCHANGED <<view, prev, pending, maxShown, plain, controlVars, sortVars, extVars>>

\* Previous: disabled={isFirstPage}, onClick={goToPrevious}
ClickPrevious ==
    /\ view.shown
    /\ ~NextTablePagination(view).previous
    /\ url' = NextGoToPrevious(url, view.currentPage).params
    /\ UNCHANGED <<view, prev, pending, maxShown, plain, controlVars, sortVars, extVars>>

\* Next: disabled={!canGoNext}, onClick={goToNext}
ClickNext ==
    /\ view.shown
    /\ ~NextTablePagination(view).next
    /\ url' = NextGoToNext(url, view.hasMore, view.currentPage,
                           view.maxPageReached).params
    /\ UNCHANGED <<view, prev, pending, maxShown, plain, controlVars, sortVars, extVars>>

\* A session that starts with a request without a `cursors` parameter.
FirstPages == {Undefined, <<"5">>, <<"2", ".", "5">>}

Init ==
    /\ url \in [page : FirstPages, cursors : {Undefined}]
    /\ view = NoView
    /\ prev = NoView
    /\ pending = Undefined
    /\ maxShown = 0
    /\ plain = TRUE
    /\ ControlIdle
    /\ SortIdle
    /\ ExtIdle

Render == RenderWith(BackendAnswers)

Next ==
    \/ Render
    \/ WriteBack
    \/ ClickFirst
    \/ ClickPrevious
    \/ ClickNext

Spec == Init /\ [][Next]_vars

\* One request with an arbitrary query string and its render.
InitRequest ==
    /\ url \in [page : RawPages, cursors : RawCursors]
    /\ view = NoView
    /\ prev = NoView
    /\ pending = Undefined
    /\ maxShown = 0
    /\ plain = TRUE
    /\ ControlIdle
    /\ SortIdle
    /\ ExtIdle

RenderOnce ==
    /\ ~view.shown
    /\ RenderWith(BackendAnswers)

NextRequest == RenderOnce

SpecRequest == InitRequest /\ [][NextRequest]_vars

\* ------------------------------------------ pagination control clicks ----
\* The two cursor-history pagination components rendered with given props,
\* and clicks on their enabled buttons (a disabled button delivers no click).
MaxPage == 4

\* the currentPage prop is a number: NaN, Infinity, -1, 0, 0.5, 1, 1.5, ...
\* MaxPage
ControlPages ==
    {NaN, Infinity, Num(0 - Scale)} \cup {Num(k * (Scale \div 2)) : k \in 0..(2 * MaxPage)}

ControlProps ==
    [currentPage : ControlPages, maxPageReached : 1..MaxPage, hasMore : BOOLEAN]

Rendered(props) ==
    [ currentPage    |-> props.currentPage,
      maxPageReached |-> props.maxPageReached,
      hasMore        |-> props.hasMore,
      react          |-> ReactTablePagination(props),
      next           |-> NextTablePagination(props) ]

\* the query string the Next.js component reads while it shows pag
ControlParams == [page |-> NumToStr(pag.currentPage), cursors |-> Undefined]

InitControls ==
    /\ CursorIdle
    /\ SortIdle
    /\ ExtIdle
    /\ \E props \in ControlProps : pag = Rendered(props)
    /\ nav = NoNav

Pushed(control, r) ==
    [impl |-> "next", control |-> control, pushed |-> r.pushed, page |-> r.params.page]

NextClickFirst ==
    /\ ~pag.next.first
    /\ nav' = Pushed("first", NextGoToFirst(ControlParams))
    /\ UNCHANGED <<pag, cursorVars, sortVars, extVars>>

NextClickPrevious ==
    /\ ~pag.next.previous
    /\ nav' = Pushed("previous", NextGoToPrevious(ControlParams, pag.currentPage))
    /\ UNCHANGED <<pag, cursorVars, sortVars, extVars>>

NextClickNext ==
    /\ ~pag.next.next
    /\ nav' = Pushed("next", NextGoToNext(ControlParams, pag.hasMore, pag.currentPage,
                                          pag.maxPageReached))
    /\ UNCHANGED <<pag, cursorVars, sortVars, extVars>>

\* the React buttons call the callback prop: onClick={onFirstPage} and so on
Called(control) ==
    [impl |-> "react", control |-> control, pushed |-> TRUE, page |-> Undefined]

ReactClickFirst ==
    /\ ~pag.react.first
    /\ nav' = Called("first")
    /\ UNCHANGED <<pag, cursorVars, sortVars, extVars>>

ReactClickPrevious ==
    /\ ~pag.react.previous
    /\ nav' = Called("previous")
    /\ UNCHANGED <<pag, cursorVars, sortVars, extVars>>

ReactClickNext ==
    /\ ~pag.react.next
    /\ nav' = Called("next")
    /\ UNCHANGED <<pag, cursorVars, sortVars, extVars>>

NextControls ==
    \/ NextClickFirst
    \/ NextClickPrevious
    \/ NextClickNext
    \/ ReactClickFirst
    \/ ReactClickPrevious
    \/ ReactClickNext

SpecControls == InitControls /\ [][NextControls]_vars

\* ------------------------------------------------------- sort clicks ----
\* One of the three sort-toggle implementations, started in any sort state,
\* and clicks on column headers.  The React hook's updater works on the state
\* the update before left.  A Next.js handler works on the searchParams (and
\* props) of the component's last render and ends with router.push; the
\* component shows the pushed URL once the navigation has rendered, and a click
\* before that works on the old ones.
MaxClicks == 3

ColumnKeys == {<<"n", "a", "m", "e">>, <<"e", "m", "a", "i", "l">>, <<"r", "o", "l", "e">>}

\* React: useState({...DEFAULT_STATE, ...initialState})
ReactSortStates == [sortBy : ColumnKeys \cup {Undefined}, sortOrder : {Asc, Desc}]

\* Next.js: the sortBy and sortOrder parameters of the query string, any text
UrlSortParams ==
    [ sortBy    : ColumnKeys \cup {Undefined, <<>>},
      sortOrder : {Undefined, <<>>, Asc, Desc, <<"u", "p">>} ]

\* the sort state an implementation works from
SortView(i, store) ==
    IF i = "react" THEN store
    ELSE IF i = "hook" THEN HookSortState(store)
    ELSE HeaderProps(store)

InitSort ==
    /\ CursorIdle
    /\ ControlIdle
    /\ ExtIdle
    /\ impl \in {"react", "hook", "header"}
    /\ sort \in IF impl = "react" THEN ReactSortStates ELSE UrlSortParams
    /\ shown = sort
    /\ trail = <<>>

\* a click: the store after it, and what the component shows after it.  The
\* trail keeps the sort state of the store before and after the click, and
\* the one the component showed when it was clicked.
Clicked(columnKey, after, rendered) ==
    /\ sort' = after
    /\ shown' = rendered
    /\ trail' = Append(trail, [ col    |-> columnKey,
                                seen   |-> SortView(impl, shown),
                                before |-> SortView(impl, sort),
                                after  |-> SortView(impl, after) ])
    /\ UNCHANGED <<impl, cursorVars, controlVars, extVars>>

\* actions.toggleSort(columnKey) of the React hook: setState with an updater,
\* rendered before the next event
ReactSortClick ==
    /\ impl = "react"
    /\ Len(trail) < MaxClicks
    /\ \E columnKey \in ColumnKeys :
          Clicked(columnKey, ReactToggleSort(sort, columnKey),
                  ReactToggleSort(sort, columnKey))

\* actions.toggleSort(columnKey) of the Next.js hook, on the searchParams of
\* the last render
HookSortClick ==
    /\ impl = "hook"
    /\ Len(trail) < MaxClicks
    /\ \E columnKey \in ColumnKeys :
          Clicked(columnKey, HookToggleSort(shown, columnKey), shown)

\* a click on a column button of the Next.js TableHeader, on the searchParams
\* and props of the last render
HeaderSortClick ==
    /\ impl = "header"
    /\ Len(trail) < MaxClicks
    /\ \E columnKey \in ColumnKeys :
          Clicked(columnKey, HeaderHandleSort(shown, HeaderProps(shown), columnKey),
                  shown)

\* Next.js: the navigation a click pushed has rendered, the component shows
\* the URL
SortNavigated ==
    /\ impl \in {"hook", "header"}
    /\ shown # sort
    /\ shown' = sort
    /\ UNCHANGED <<impl, sort, trail, cursorVars, controlVars, extVars>>

NextSort ==
    \/ ReactSortClick
    \/ HookSortClick
    \/ HeaderSortClick
    \/ SortNavigated

SpecSort == InitSort /\ [][NextSort]_vars

\* ---------------------------------------------------- parseTableParams ----
\* const n = Number(raw); Number.isNaN(n) || n < 1 ? fallback : n
ParsePositive(raw, fallback) ==
    LET n == ToNumber(raw)
    IN IF n.nan \/ n.v < Scale THEN Int2Num(fallback) ELSE n

\* variant: any non-empty text accepted as the sort order
ParseSortOrder_Any(raw) == IF TruthyStr(raw) THEN raw ELSE Asc

\* sortOrder === "asc" || sortOrder === "desc" ? sortOrder : "asc"
ParseSortOrder(raw) == IF raw = Asc \/ raw = Desc THEN raw ELSE Asc

\* x || undefined
OrUndefined(raw) == IF TruthyStr(raw) THEN raw ELSE Undefined

ParseTableParams(searchParams) ==
    [ page      |-> ParsePositive(searchParams.page, 1),
      pageSize  |-> ParsePositive(searchParams.pageSize, 10),
      sortBy    |-> OrUndefined(searchParams.sortBy),
      sortOrder |-> ParseSortOrder(searchParams.sortOrder),
      search    |-> OrUndefined(searchParams.search) ]

\* numeric parameters beside the enumerated ones: absent, empty, text, zero,
\* negative, fractional, plain positive integers, an integer with white
\* space before it, and Infinity
NumberSamples ==
    { Undefined, <<>>, <<"a", "b", "c">>, <<"0">>, <<"-", "3">>, <<"2", ".", "5">>,
      <<"4">>, <<"2", "5">>, <<" ", "4">>, InfinityText }

SortOrderSamples ==
    { Undefined, <<>>, Asc, Desc, <<"A", "S", "C">>, <<"D", "e", "s", "c">>, <<"u", "p">> }

TextSamples == { Undefined, <<>>, <<"a", "b">>, <<"n", "a", "m", "e">> }

\* the arguments of the enumerated calls: each numeric parameter over every
\* raw string while the other takes a sample, and every combination of samples
ParseArguments ==
    [ page : RawPages, pageSize : NumberSamples,
      sortBy : {Undefined}, sortOrder : {Undefined}, search : {Undefined} ]
    \cup
    [ page : NumberSamples, pageSize : RawPages,
      sortBy : {Undefined}, sortOrder : {Undefined}, search : {Undefined} ]
    \cup
    [ page : NumberSamples, pageSize : NumberSamples,
      sortBy : TextSamples, sortOrder : SortOrderSamples, search : TextSamples ]

InitParse ==
    /\ CursorIdle
    /\ ControlIdle
    /\ SortIdle
    /\ MoreIdle
    /\ PageModeIdle
    /\ TableIdle
    /\ InputIdle
    /\ PaginateIdle
    /\ \E searchParams \in ParseArguments :
          parse = [called |-> FALSE, searchParams |-> searchParams, state |-> NoParams]

\* parseTableParams(searchParams) is called and returns
ParseCall ==
    /\ ~parse.called
    /\ parse' = [parse EXCEPT !.called = TRUE,
                              !.state = ParseTableParams(parse.searchParams)]
    /\ UNCHANGED <<baseVars, moreVars, pmode, table, sinput, pgn>>

NextParse == ParseCall

SpecParse == InitParse /\ [][NextParse]_vars

\* ------------------------------------------------ page-mode pagination ----
\* Math.ceil(a / b) for whole numbers a and b > 0
CeilDiv(a, b) == 0 - ((0 - a) \div b)

\* calculateTotalPages(totalCount, pageSize)
CalculateTotalPages(totalCount, pageSize) ==
    IF totalCount <= 0 \/ pageSize <= 0 THEN 1 ELSE CeilDiv(totalCount, pageSize)

\* the React page-based TablePagination:
\* const totalPages = Math.max(1, Math.ceil(totalCount / pageSize))
ReactTotalPages(totalCount, pageSize) == MaxOf(1, CeilDiv(totalCount, pageSize))

\* the Next.js TablePagination in page mode:
\* const totalPages = Math.ceil(totalCount / pageSize)
NextTotalPages(totalCount, pageSize) == CeilDiv(totalCount, pageSize)

TotalPagesOf(i, totalCount, pageSize) ==
    IF i = "calc" THEN CalculateTotalPages(totalCount, pageSize)
    ELSE IF i = "react" THEN ReactTotalPages(totalCount, pageSize)
    ELSE NextTotalPages(totalCount, pageSize)

\* the disabled attribute of the two buttons.  React: disabled={!canGoPrevious},
\* disabled={!canGoNext}; Next.js: isPreviousDisabled = page <= 1,
\* isNextDisabled = page >= totalPages
PageModeButtons(i, page, totalPages) ==
    IF i = "react"
    THEN [ previous |-> ~NumGt(page, Int2Num(1)),
           next     |-> ~NumLt(page, Int2Num(totalPages)) ]
    ELSE [ previous |-> NumLe(page, Int2Num(1)),
           next     |-> NumGe(page, Int2Num(totalPages)) ]

\* Next.js goToPrevious and goToNext: the page pushed to the URL,
\* params.set("page", String(newPage)), when the handler's own test passes
PageModeGoToPrevious(page) ==
    IF NumGt(page, Int2Num(1)) THEN NumToStr(NumSub(page, Int2Num(1))) ELSE Undefined

PageModeGoToNext(page, totalPages) ==
    IF NumLt(page, Int2Num(totalPages))
    THEN NumToStr(NumAdd(page, Int2Num(1))) ELSE Undefined

\* largest totalCount and pageSize of an enumerated component
MaxCount == 25
MaxSize == 10

\* props of the two components: page is a number, pageSize at least 1
PageModeProps ==
    [ impl : {"react", "next"}, page : {NaN} \cup {Int2Num(k) : k \in 0..(MaxPage + 1)},
      pageSize : 1..MaxSize, totalCount : 0..MaxCount ]

\* arguments of calculateTotalPages: any whole numbers
CalculateArguments ==
    [ impl : {"calc"}, page : {Int2Num(1)},
      pageSize : (0 - 1)..MaxSize, totalCount : (0 - 1)..MaxCount ]

InitPageMode ==
    /\ CursorIdle
    /\ ControlIdle
    /\ SortIdle
    /\ MoreIdle
    /\ ParseIdle
    /\ TableIdle
    /\ InputIdle
    /\ PaginateIdle
    /\ \E props \in PageModeProps \cup CalculateArguments :
          pmode = [NoPageMode EXCEPT !.impl = props.impl, !.store = props.page,
                                     !.pageSize = props.pageSize,
                                     !.totalCount = props.totalCount,
                                     !.start = props.page]

\* calculateTotalPages is called, or a component renders with the page its
\* caller holds (React) or the URL holds (Next.js, once a navigation commits)
PageModeRender ==
    /\ ~pmode.rendered
    /\ LET totalPages == TotalPagesOf(pmode.impl, pmode.totalCount, pmode.pageSize)
       IN pmode' = [pmode EXCEPT
                      !.mounted = TRUE,
                      !.rendered = TRUE,
                      !.page = pmode.store,
                      !.totalPages = totalPages,
                      !.disabled = IF pmode.impl = "calc" THEN @
                                   ELSE PageModeButtons(pmode.impl, pmode.store, totalPages)]
    /\ UNCHANGED <<baseVars, moreVars, parse, table, sinput, pgn>>

\* a click handler hands newPage to the caller or to the URL; the component
\* shows it with its next render
PageModeNavigate(control, newPage) ==
    /\ pmode' = [pmode EXCEPT !.rendered = FALSE, !.store = newPage,
                              !.clicked = control, !.from = pmode.store]
    /\ UNCHANGED <<baseVars, moreVars, parse, table, sinput, pgn>>

\* React: onClick={() => onPageChange(page - 1)}; the caller stores the page
\* and the component is rendered again before the next click is handled
ReactPageModePrevious ==
    /\ pmode.impl = "react" /\ pmode.rendered /\ ~pmode.disabled.previous
    /\ PageModeNavigate("previous", NumSub(pmode.page, Int2Num(1)))

\* React: onClick={() => onPageChange(page + 1)}
ReactPageModeNext ==
    /\ pmode.impl = "react" /\ pmode.rendered /\ ~pmode.disabled.next
    /\ PageModeNavigate("next", NumAdd(pmode.page, Int2Num(1)))

\* Next.js: onClick={goToPrevious} of the component as it was last rendered,
\* which stays on the screen until the pushed navigation commits; router.push
\* of the page, read back from the URL with Number()
NextPageModePrevious ==
    /\ pmode.impl = "next" /\ pmode.mounted /\ ~pmode.disabled.previous
    /\ LET pushed == PageModeGoToPrevious(pmode.page)
       IN /\ pushed # Undefined
          /\ PageModeNavigate("previous", ToNumber(pushed))

\* Next.js: onClick={goToNext}
NextPageModeNext ==
    /\ pmode.impl = "next" /\ pmode.mounted /\ ~pmode.disabled.next
    /\ LET pushed == PageModeGoToNext(pmode.page, pmode.totalPages)
       IN /\ pushed # Undefined
          /\ PageModeNavigate("next", ToNumber(pushed))

NextPageMode ==
    \/ PageModeRender
    \/ ReactPageModePrevious
    \/ ReactPageModeNext
    \/ NextPageModePrevious
    \/ NextPageModeNext

SpecPageMode == InitPageMode /\ [][NextPageMode]_vars

\* ------------------------------------------------- table state hooks ----
\* React useTableState: the state updaters
ReactSetPage(st, page) == [st EXCEPT !.page = MathMax(Int2Num(1), page)]

\* variant: the page kept when the page size changes
ReactSetPageSize_KeepPage(st, pageSize) ==
    [st EXCEPT !.pageSize = MathMax(Int2Num(1), pageSize)]

ReactSetPageSize(st, pageSize) ==
    [st EXCEPT !.pageSize = MathMax(Int2Num(1), pageSize), !.page = Int2Num(1)]

ReactSetSort(st, sortBy, sortOrder) ==
    [st EXCEPT !.sortBy = sortBy,
               !.sortOrder = IF TruthyStr(sortOrder) THEN sortOrder ELSE Asc]

ReactSetSearch(st, search) ==
    [st EXCEPT !.search = OrUndefined(search), !.page = Int2Num(1)]

\* searchParams.get(key): null for a parameter the URL lacks
SearchParamsGet(searchParams, key) ==
    IF searchParams[key] = Undefined THEN Null ELSE searchParams[key]

\* Next.js useTableState: the state parsed from the URL.  A parameter the URL
\* lacks is read as null; Number(null) is 0 and Number(undefined) NaN, both
\* replaced by the default
HookState(searchParams) ==
    LET page     == ToNumber(SearchParamsGet(searchParams, "page"))
        pageSize == ToNumber(SearchParamsGet(searchParams, "pageSize"))
    IN [ page      |-> MathMax(Int2Num(1), IF TruthyNum(page) THEN page ELSE Int2Num(1)),
         pageSize  |-> MathMax(Int2Num(1),
                               IF TruthyNum(pageSize) THEN pageSize ELSE Int2Num(10)),
         sortBy    |-> HookSortState(searchParams).sortBy,
         sortOrder |-> HookSortState(searchParams).sortOrder,
         search    |-> OrUndefined(searchParams.search) ]

\* variant: the sort update rebuilds the query string from the sort alone
UpdateParams_SortOnly(searchParams, updates) ==
    [ k \in DOMAIN searchParams |->
        IF k \in {"sortBy", "sortOrder"} /\ k \in DOMAIN updates THEN updates[k]
        ELSE IF k \in {"page", "pageSize"} /\ k \in DOMAIN updates
             THEN NumToStr(updates[k])
        ELSE IF k = "search" /\ k \in DOMAIN updates THEN OrUndefined(updates[k])
        ELSE IF "sortBy" \in DOMAIN updates THEN Undefined
        ELSE searchParams[k] ]

\* updateParams(updates): updates holds some of the keys page, pageSize (numbers),
\* sortBy, sortOrder, search (text or undefined); a deleted parameter is absent
UpdateParams(searchParams, updates) ==
    [ k \in DOMAIN searchParams |->
        IF k \in {"sortBy", "sortOrder"} /\ k \in DOMAIN updates THEN updates[k]
        ELSE IF k \in {"page", "pageSize"} /\ k \in DOMAIN updates
             THEN NumToStr(updates[k])
        ELSE IF k = "search" /\ k \in DOMAIN updates THEN OrUndefined(updates[k])
        ELSE searchParams[k] ]

HookSetPage(searchParams, page) ==
    UpdateParams(searchParams, [page |-> MathMax(Int2Num(1), page)])

HookSetPageSize(searchParams, pageSize) ==
    UpdateParams(searchParams,
                 [pageSize |-> MathMax(Int2Num(1), pageSize), page |-> Int2Num(1)])

HookSetSort(searchParams, sortBy, sortOrder) ==
    IF sortBy = Undefined
    THEN UpdateParams(searchParams, [sortBy |-> Undefined, sortOrder |-> Undefined])
    ELSE UpdateParams(searchParams, [sortBy |-> sortBy, sortOrder |-> sortOrder])

HookSetSearch(searchParams, search) ==
    UpdateParams(searchParams, [search |-> search, page |-> Int2Num(1)])

\* Next.js SearchInput: the effect schedules an update only when the text differs
\* from the URL's search, const currentUrlSearch = searchParams.get("search") || ""
SearchInputChanged(searchParams, searchValue) ==
    searchValue # (IF TruthyStr(searchParams.search) THEN searchParams.search ELSE <<>>)

\* the timer callback: the parameters pushed with router.push
SearchInputPush(searchParams, searchValue) ==
    IF TruthyStr(searchValue)
    THEN [searchParams EXCEPT !.search = searchValue, !.page = <<"1">>]
    ELSE [searchParams EXCEPT !.search = Undefined]

\* the text of a SearchInput mounted without initialValue:
\* useState(initialValue || urlSearch)
MountedText(searchParams) ==
    IF TruthyStr(searchParams.search) THEN searchParams.search ELSE <<>>

\* React reset(): setState(DEFAULT_STATE)
ReactReset ==
    [ page |-> Int2Num(1), pageSize |-> Int2Num(10), sortBy |-> Undefined,
      sortOrder |-> Asc, search |-> Undefined ]

\* Next.js reset(): router.push("?page=1"), no other parameter is kept
HookReset(searchParams) ==
    [ k \in DOMAIN searchParams |-> IF k = "page" THEN <<"1">> ELSE Undefined ]

\* the stores an operation may find.  React: useState({...DEFAULT_STATE,
\* ...initialState}); Next.js: the query string, with any other parameter
\* (here `cursors`) beside the table's own
ReactStores ==
    [ page : {Int2Num(1), Int2Num(4)}, pageSize : {Int2Num(10), Int2Num(25)},
      sortBy : {Undefined, <<"n", "a", "m", "e">>}, sortOrder : {Asc, Desc},
      search : {Undefined, <<"a", "b">>} ]

UrlStores ==
    [ page : {Undefined, <<"4">>}, pageSize : {Undefined, <<"2", "5">>},
      sortBy : {Undefined, <<"n", "a", "m", "e">>},
      sortOrder : {Undefined, Asc, Desc, <<"u", "p">>},
      search : {Undefined, <<"a", "b">>},
      cursors : {Undefined, <<"n", "u", "l", "l", ",", "5">>} ]

\* arguments: numbers below, at and above 1, whole and fractional; texts
NumberArgs ==
    { Num(0 - Scale), Num(0), Int2Num(1), Num(2 * Scale + Scale \div 2), Int2Num(3),
      Int2Num(25) }
SearchTexts == { <<>>, <<"a", "b">>, <<"c", "d">> }
SortKeys == { <<"n", "a", "m", "e">>, <<"r", "o", "l", "e">> }

\* the table state an implementation shows for its store
TableView(i, store) == IF i = "react" THEN store ELSE HookState(store)

InitTable ==
    /\ CursorIdle
    /\ ControlIdle
    /\ SortIdle
    /\ MoreIdle
    /\ ParseIdle
    /\ PageModeIdle
    /\ InputIdle
    /\ PaginateIdle
    /\ \E i \in {"react", "hook", "header", "input"} :
       \E store \in IF i = "react" THEN ReactStores ELSE UrlStores :
          table = [NoTable EXCEPT !.impl = i, !.store = store,
                                  !.text = IF i = "input" THEN MountedText(store)
                                           ELSE Undefined]

\* an operation ran: what it was called with and the store it left
Ran(op, after, num, key, order, text) ==
    /\ table.op = "none"
    /\ table' = [ impl |-> table.impl, store |-> after, op |-> op,
                  before |-> table.store, num |-> num, key |-> key,
                  order |-> order, text |-> text ]
    /\ UNCHANGED <<baseVars, moreVars, parse, pmode, sinput, pgn>>

\* actions.setPage(page)
SetPage ==
    \E page \in NumberArgs :
       \/ table.impl = "react"
          /\ Ran("setPage", ReactSetPage(table.store, page), page,
                 Undefined, Undefined, Undefined)
       \/ table.impl = "hook"
          /\ Ran("setPage", HookSetPage(table.store, page), page,
                 Undefined, Undefined, Undefined)

\* actions.setPageSize(pageSize)
SetPageSize ==
    \E pageSize \in NumberArgs :
       \/ table.impl = "react"
          /\ Ran("setPageSize", ReactSetPageSize(table.store, pageSize), pageSize,
                 Undefined, Undefined, Undefined)
       \/ table.impl = "hook"
          /\ Ran("setPageSize", HookSetPageSize(table.store, pageSize), pageSize,
                 Undefined, Undefined, Undefined)

\* actions.setSort(sortBy, sortOrder); only the React signature admits an
\* undefined sortOrder
SetSort ==
    \E sortBy \in SortKeys \cup {Undefined} :
       \/ table.impl = "react"
          /\ \E sortOrder \in {Asc, Desc, Undefined} :
                Ran("setSort", ReactSetSort(table.store, sortBy, sortOrder), NaN,
                    sortBy, sortOrder, Undefined)
       \/ table.impl = "hook"
          /\ \E sortOrder \in {Asc, Desc} :
                Ran("setSort", HookSetSort(table.store, sortBy, sortOrder), NaN,
                    sortBy, sortOrder, Undefined)

\* actions.toggleSort(columnKey)
ToggleSort ==
    \E columnKey \in SortKeys :
       \/ table.impl = "react"
          /\ Ran("toggleSort", ReactToggleSort(table.store, columnKey), NaN,
                 columnKey, Undefined, Undefined)
       \/ table.impl = "hook"
          /\ Ran("toggleSort", HookToggleSort(table.store, columnKey), NaN,
                 columnKey, Undefined, Undefined)

\* a click on a column button of the Next.js TableHeader
HeaderSort ==
    /\ table.impl = "header"
    /\ \E columnKey \in SortKeys :
          Ran("headerSort",
              HeaderHandleSort(table.store, HeaderProps(table.store), columnKey),
              NaN, columnKey, Undefined, Undefined)

\* actions.setSearch(search)
SetSearch ==
    \E search \in SearchTexts :
       \/ table.impl = "react"
          /\ Ran("setSearch", ReactSetSearch(table.store, search), NaN,
                 Undefined, Undefined, search)
       \/ table.impl = "hook"
          /\ Ran("setSearch", HookSetSearch(table.store, search), NaN,
                 Undefined, Undefined, search)

\* actions.reset()
Reset ==
    \/ table.impl = "react"
       /\ Ran("reset", ReactReset, NaN, Undefined, Undefined, Undefined)
    \/ table.impl = "hook"
       /\ Ran("reset", HookReset(table.store), NaN, Undefined, Undefined, Undefined)

\* Next.js SearchInput, handleChange / handleClear: the text is set; the effect
\* runs again, clearing the timer of the text before, and a timer is pending
\* from now on exactly while the text differs from the URL's search
SearchInputChange ==
    /\ table.impl = "input"
    /\ table.op \in {"none", "typed"}
    /\ \E searchValue \in SearchTexts :
          table' = [table EXCEPT !.op = "typed", !.text = searchValue]
    /\ UNCHANGED <<baseVars, moreVars, parse, pmode, sinput, pgn>>

\* another control pushes a page while the SearchInput is mounted: the effect
\* runs again with the new searchParams
SearchInputUrlChange ==
    /\ table.impl = "input"
    /\ table.op \in {"none", "typed"}
    /\ \E page \in {<<"2">>, <<"4">>} :
          /\ table.store.page # page
          /\ table' = [table EXCEPT !.store.page = page]
    /\ UNCHANGED <<baseVars, moreVars, parse, pmode, sinput, pgn>>

\* the timer callback, 500 ms after the effect ran last: router.push of the
\* parameters built from the searchParams and the text of that run
SearchInputTimer ==
    /\ table.impl = "input"
    /\ table.op = "typed"
    /\ SearchInputChanged(table.store, table.text)
    /\ table' = [table EXCEPT !.op = "searchInput", !.before = table.store,
                              !.store = SearchInputPush(table.store, table.text)]
    /\ UNCHANGED <<baseVars, moreVars, parse, pmode, sinput, pgn>>

NextTable ==
    \/ SetPage
    \/ SetPageSize
    \/ SetSort
    \/ ToggleSort
    \/ HeaderSort
    \/ SetSearch
    \/ Reset
    \/ SearchInputChange
    \/ SearchInputUrlChange
    \/ SearchInputTimer

SpecTable == InitTable /\ [][NextTable]_vars

\* --------------------------------------------------------- SearchInput ----
\* The two debounced SearchInput components with the store behind them: the
\* React component wired as in the README (value={state.search || ""},
\* onChange={actions.setSearch}), the Next.js component on the URL.
MaxKeys == 3

\* state.search || "" and searchParams.get("search") || ""
SearchValue(store) == IF TruthyStr(store.search) THEN store.search ELSE <<>>

\* variant: a clean-up that cancels nothing
ClearTimeout_Keep(timers, id) == timers

\* return () => clearTimeout(timeoutId)
ClearTimeout(timers, id) == {t \in timers : t.id # id}

\* The debounce effect runs again: the clean-up of its previous run, then
\* setTimeout with the text and the store of this render.  The React effect
\* always sets a timer; the Next.js effect returns before setTimeout when the
\* text is the URL's search.
RunEffect(in) ==
    LET kept == ClearTimeout(in.timers, in.timeoutId)
        t    == [id |-> in.nextId, text |-> in.text, store |-> in.store]
    IN IF in.impl = "react" \/ SearchInputChanged(in.store, in.text)
       THEN [in EXCEPT !.timers = kept \cup {t}, !.timeoutId = in.nextId,
                       !.nextId = in.nextId + 1]
       ELSE [in EXCEPT !.timers = kept, !.timeoutId = 0]

\* whether the timer callback emits an update.  React:
\* if (localValue !== value) onChange(localValue); Next.js: router.push always
TimerEmits(i, t) == i = "next" \/ t.text # SearchValue(t.store)

\* the update emitted: the onChange argument, or the pushed parameters
TimerUpdate(i, t) ==
    [ text   |-> t.text,
      params |-> IF i = "next" THEN SearchInputPush(t.store, t.text) ELSE t.store ]

\* what the store becomes when the update u arrives: setSearch(u.text) on the
\* React state, the pushed query string in Next.js
Delivered(i, store, u) ==
    IF i = "react" THEN ReactSetSearch(store, u.text) ELSE u.params

InputTexts == { <<>>, <<"a">>, <<"a", "b">> }

InitInput ==
    /\ CursorIdle
    /\ ControlIdle
    /\ SortIdle
    /\ MoreIdle
    /\ ParseIdle
    /\ PageModeIdle
    /\ TableIdle
    /\ PaginateIdle
    /\ \E i \in {"react", "next"}, search \in {Undefined, <<"a">>},
          initialValue \in {<<>>, <<"a", "b">>} :
          LET store == [ page   |-> IF i = "react" THEN Int2Num(4) ELSE <<"4">>,
                         search |-> search ]
              text  == IF i = "next" /\ TruthyStr(initialValue) THEN initialValue
                       ELSE SearchValue(store)
          IN sinput = RunEffect([NoInput EXCEPT !.impl = i, !.text = text,
                                                !.store = store])

\* a keystroke changes the text: setLocalValue / setSearchValue, render, effect
Type ==
    /\ sinput.keys < MaxKeys
    /\ \E v \in InputTexts \ {sinput.text} :
          sinput' = RunEffect([sinput EXCEPT !.text = v, !.keys = @ + 1,
                                             !.burst = @ + 1, !.last = "type"])
    /\ UNCHANGED <<baseVars, moreVars, parse, pmode, table, pgn>>

\* the Clear button, shown while the text is not empty.  React: setLocalValue("")
\* and onChange("") at once; Next.js: setSearchValue("")
Clear ==
    /\ sinput.keys < MaxKeys
    /\ sinput.text # <<>>
    /\ LET u == [text |-> <<>>, params |-> sinput.store]
           e == [text |-> <<>>, shown |-> <<>>, burst |-> sinput.burst, timer |-> FALSE]
           cleared == [sinput EXCEPT !.text = <<>>, !.keys = @ + 1, !.burst = 0,
                                     !.last = "clear"]
       IN sinput' = RunEffect(IF sinput.impl = "react"
                              THEN [cleared EXCEPT !.inflight = Append(@, u),
                                                   !.emitted = Append(@, e)]
                              ELSE cleared)
    /\ UNCHANGED <<baseVars, moreVars, parse, pmode, table, pgn>>

\* the quiet period of a pending timer ends and its callback runs
Fire ==
    /\ \E t \in sinput.timers :
          LET e == [ text |-> t.text, shown |-> sinput.text,
                     burst |-> sinput.burst, timer |-> TRUE ]
              fired == [sinput EXCEPT !.timers = @ \ {t}, !.burst = 0, !.last = "fire"]
          IN sinput' = IF TimerEmits(sinput.impl, t)
                       THEN [fired EXCEPT
                               !.inflight = Append(@, TimerUpdate(sinput.impl, t)),
                               !.emitted = Append(@, e)]
                       ELSE [fired EXCEPT !.last = "expire"]
    /\ UNCHANGED <<baseVars, moreVars, parse, pmode, table, pgn>>

\* the store takes the oldest update and the component renders with it.  React:
\* the sync effect copies a changed value into the text, and the debounce effect
\* runs again; Next.js: the debounce effect runs again for the new searchParams
Deliver ==
    /\ sinput.inflight # <<>>
    /\ LET store == Delivered(sinput.impl, sinput.store, Head(sinput.inflight))
           moved == [sinput EXCEPT !.store = store, !.inflight = Tail(@),
                                   !.last = "deliver"]
       IN sinput' =
            IF sinput.impl = "react"
            THEN IF SearchValue(store) # SearchValue(sinput.store)
                 THEN RunEffect([moved EXCEPT !.text = SearchValue(store)])
                 ELSE moved
            ELSE IF store # sinput.store THEN RunEffect(moved) ELSE moved
    /\ UNCHANGED <<baseVars, moreVars, parse, pmode, table, pgn>>

NextInput ==
    \/ Type
    \/ Clear
    \/ Fire
    \/ Deliver

SpecInput == InitInput /\ [][NextInput]_vars

\* ------------------------------------------------ Convex pagination ----
\* Number.parseInt(s, 10): leading white space is skipped, then an optional
\* sign and the digits up to the first other character, NaN when there are none
ParseInt(s) ==
    LET t      == TrimStart(s)
        signed == t # <<>> /\ t[1] \in {"-", "+"}
        body   == IF signed THEN Tail(t) ELSE t
        stops  == {i \in DOMAIN body : body[i] \notin Digits}
        n      == IF stops = {} THEN Len(body)
                  ELSE (CHOOSE i \in stops : \A j \in stops : i <= j) - 1
        mag    == DigitsValue(SubSeq(body, 1, n))
    IN CASE t = <<>> \/ t[1] \in Ascii ->
            IF n = 0 THEN NaN
            ELSE FiniteNum((IF signed /\ t[1] = "-" THEN 0 - mag ELSE mag) * Scale)

\* the index Array.prototype.slice makes of an argument for an array of length
\* len: NaN is 0, a fraction is cut off, a negative index counts from the end
SliceIndex(n, len) ==
    LET k == IF n.nan THEN 0
             ELSE IF n.v >= 0 THEN n.v \div Scale ELSE 0 - ((0 - n.v) \div Scale)
    IN IF k < 0 THEN MaxOf(len + k, 0) ELSE IF k > len THEN len ELSE k

\* allResults.slice(start, end)
Slice(arr, start, end) ==
    SubSeq(arr, SliceIndex(start, Len(arr)) + 1, SliceIndex(end, Len(arr)))

\* variant: the offset of the end of the page
GetPageOffset_EndOfPage(page, pageSize) == NumToStr(NumMul(page, pageSize))

\* getPageOffset: ((page - 1) * pageSize).toString()
GetPageOffset(page, pageSize) ==
    NumToStr(NumMul(NumSub(page, Int2Num(1)), pageSize))

\* variant: the next page starts one element late
PaginateResults_SkipOne(allResults, paginationOpts) ==
    LET offset == IF TruthyStr(paginationOpts.cursor)
                  THEN ParseInt(paginationOpts.cursor) ELSE Int2Num(0)
        end    == NumAdd(offset, paginationOpts.numItems)
        isDone == ~end.nan /\ end.v >= Len(allResults) * Scale
    IN [ page           |-> Slice(allResults, offset, end),
         isDone         |-> isDone,
         continueCursor |-> IF isDone THEN Null
                            ELSE NumToStr(NumAdd(end, Int2Num(1))) ]

\* paginateResults(allResults, paginationOpts)
PaginateResults(allResults, paginationOpts) ==
    LET offset == IF TruthyStr(paginationOpts.cursor)
                  THEN ParseInt(paginationOpts.cursor) ELSE Int2Num(0)
        end    == NumAdd(offset, paginationOpts.numItems)
        isDone == ~end.nan /\ end.v >= Len(allResults) * Scale
    IN [ page           |-> Slice(allResults, offset, end),
         isDone         |-> isDone,
         continueCursor |-> IF isDone THEN Null ELSE NumToStr(end) ]

\* lists of distinct rows, of every length up to MaxCount
RowLists == { [i \in 1..n |-> 100 + i] : n \in 0..MaxCount }

InitPaginate ==
    /\ CursorIdle
    /\ ControlIdle
    /\ SortIdle
    /\ MoreIdle
    /\ ParseIdle
    /\ PageModeIdle
    /\ TableIdle
    /\ InputIdle
    /\ \E allResults \in RowLists, page \in 1..(MaxPage + 1), pageSize \in 1..MaxSize :
          pgn = [NoPaginate EXCEPT !.allResults = allResults, !.page = Int2Num(page),
                                   !.pageSize = Int2Num(pageSize)]

\* the page calls getPageOffset and the query calls paginateResults
PaginateCall ==
    /\ ~pgn.called
    /\ pgn' = [pgn EXCEPT
                 !.called = TRUE,
                 !.result = PaginateResults(pgn.allResults,
                              [ numItems |-> pgn.pageSize,
                                cursor   |-> GetPageOffset(pgn.page, pgn.pageSize) ])]
    /\ UNCHANGED <<baseVars, moreVars, parse, pmode, table, sinput>>

NextPaginate == PaginateCall

SpecPaginate == InitPaginate /\ [][NextPaginate]_vars

\* -------------------------------------------------------- table headers ----
\* The TableHeader components with the sort state behind them: the Next.js
\* header on the URL, the React header with the README's handleSort on local
\* state, and the React header with onSort={actions.setSort}.
SortByText == <<"S", "o", "r", "t", " ", "b", "y", " ">>
Ascending == <<"a", "s", "c", "e", "n", "d", "i", "n", "g">>
Descending == <<"d", "e", "s", "c", "e", "n", "d", "i", "n", "g">>
NoneText == <<"n", "o", "n", "e">>

\* aria-sort of a header cell, the same expression in both components
AriaSort(props, column) ==
    IF column.sortable /\ props.sortBy = column.key
    THEN IF props.sortOrder = Asc THEN Ascending ELSE Descending
    ELSE NoneText

\* aria-label of a sort button, the same expression in both components
AriaLabel(props, column) ==
    IF props.sortBy = column.key
    THEN SortByText \o column.label \o <<" ">>
            \o (IF props.sortOrder = Asc THEN Descending ELSE Ascending)
    ELSE SortByText \o column.label

\* React TableHeader.handleSort: the arguments of its onSort call
ReactHeaderHandleSort(props, columnKey) ==
    IF props.sortBy = columnKey
    THEN IF props.sortOrder = Asc
         THEN [columnKey |-> columnKey, sortOrder |-> Desc]
         ELSE [columnKey |-> columnKey, sortOrder |-> Undefined]
    ELSE [columnKey |-> columnKey, sortOrder |-> Asc]

\* README: setSortBy(newSortOrder ? columnKey : undefined);
\*         setSortOrder(newSortOrder || 'asc')
ReadmeHandleSort(st, columnKey, newSortOrder) ==
    [st EXCEPT !.sortBy = IF TruthyStr(newSortOrder) THEN columnKey ELSE Undefined,
               !.sortOrder = IF TruthyStr(newSortOrder) THEN newSortOrder ELSE Asc]

\* the columns of a table: key, label, sortable
HeaderColumns ==
    { [key |-> <<"n", "a", "m", "e">>, label |-> <<"N", "a", "m", "e">>,
       sortable |-> TRUE],
      [key |-> <<"e", "m", "a", "i", "l">>, label |-> <<"E", "m", "a", "i", "l">>,
       sortable |-> TRUE],
      [key |-> <<"r", "o", "l", "e">>, label |-> <<"R", "o", "l", "e">>,
       sortable |-> TRUE] }

HeaderKeys == {c.key : c \in HeaderColumns}
ColumnOf(key) == CHOOSE c \in HeaderColumns : c.key = key

\* the sortBy and sortOrder props the header is rendered with
HeaderPropsOf(i, store) == IF i = "next" THEN HeaderProps(store) ELSE store

\* the attributes of every header cell in a render
HeaderRender(i, store) ==
    [ key \in HeaderKeys |->
        [ sort  |-> AriaSort(HeaderPropsOf(i, store), ColumnOf(key)),
          label |-> AriaLabel(HeaderPropsOf(i, store), ColumnOf(key)) ] ]

\* the store after a click on the button of columnKey
HeaderClick(i, store, columnKey) ==
    LET props == HeaderPropsOf(i, store)
        call  == ReactHeaderHandleSort(props, columnKey)
    IN IF i = "next" THEN HeaderHandleSort(store, props, columnKey)
       ELSE IF i = "readme" THEN ReadmeHandleSort(store, call.columnKey, call.sortOrder)
       ELSE ReactSetSort(store, call.columnKey, call.sortOrder)

\* the sort states a header starts from: Unsorted, or a column in either order
HeaderStores ==
    [sortBy : {Undefined} \cup {c.key : c \in {d \in HeaderColumns : d.sortable}},
     sortOrder : {Asc, Desc}]

InitHeader ==
    /\ OldIdle
    /\ SessionIdle /\ ComparisonIdle /\ WalkIdle /\ BuiltIdle
    /\ \E i \in {"next", "readme", "setSort"}, store \in HeaderStores :
          hdr = [ impl |-> i, store |-> store, rendered |-> store,
                  aria |-> HeaderRender(i, store), clicks |-> <<>> ]

\* a click on the sort button of a sortable column.  The handler works on the
\* props (and, in Next.js, the searchParams) of the render the button belongs
\* to.  React: the state update and the render that follows are one
\* synchronous update.  Next.js: handleSort ends with router.push and the
\* header is rendered with the new URL in a later step.
HeaderButtonClick ==
    /\ Len(hdr.clicks) < MaxClicks
    /\ \E column \in {c \in HeaderColumns : c.sortable} :
          LET after == HeaderClick(hdr.impl, hdr.rendered, column.key)
              click == [ col    |-> column.key,
                         label  |-> hdr.aria[column.key].label,
                         before |-> HeaderPropsOf(hdr.impl, hdr.rendered),
                         after  |-> HeaderPropsOf(hdr.impl, after) ]
          IN IF hdr.impl = "next"
             THEN hdr' = [hdr EXCEPT !.store = after, !.clicks = Append(@, click)]
             ELSE hdr' = [hdr EXCEPT !.store = after, !.rendered = after,
                                     !.aria = HeaderRender(hdr.impl, after),
                                     !.clicks = Append(@, click)]
    /\ UNCHANGED <<baseVars, parse, pmode, table, sinput, pgn, ses, cmp, walk, built>>

\* Next.js: the navigation commits and the header renders with the new URL
HeaderNavigated ==
    /\ hdr.impl = "next"
    /\ hdr.rendered # hdr.store
    /\ hdr' = [hdr EXCEPT !.rendered = hdr.store,
                          !.aria = HeaderRender(hdr.impl, hdr.store)]
    /\ UNCHANGED <<baseVars, parse, pmode, table, sinput, pgn, ses, cmp, walk, built>>

NextHeader == HeaderButtonClick \/ HeaderNavigated

SpecHeader == InitHeader /\ [][NextHeader]_vars

\* ------------------------------------------- cursor-history session ----
\* A browser session on the cursor-history page with its SearchInput: server
\* renders, the inline script's write-back, clicks on the pagination buttons,
\* searches, and navigations to another page size.
MaxMoves == 3

\* const pageSize = Number(params.pageSize) || 10;
PagePageSize(params) ==
    LET n == ToNumber(params.pageSize) IN IF TruthyNum(n) THEN n ELSE Int2Num(10)

\* const search = params.search || "";
PageSearch(params) == IF TruthyStr(params.search) THEN params.search ELSE <<>>

\* the arguments of fetchQuery(api.users.list, ...)
PageRequest(params) ==
    LET cursorHistory == DecodeCursors(params.cursors)
        currentPage   == ClampPage(RequestedPage(params.page), cursorHistory)
    IN [ numItems |-> PagePageSize(params),
         cursor   |-> CursorForPage(cursorHistory, currentPage),
         search   |-> OrUndefined(PageSearch(params)) ]

\* answers of the paginated query: a cursor comes with every answer that is
\* not the last one
SessionAnswers ==
    {a \in PlainAnswers : ~a.isDone => TruthyStr(a.continueCursor)}

SessionTexts == {<<>>, <<"a", "b">>}
SessionSizes == {Undefined, <<"2", "5">>}

InitSession ==
    /\ OldIdle
    /\ HeaderIdle /\ ComparisonIdle /\ WalkIdle /\ BuiltIdle
    /\ \E pageSize \in SessionSizes, search \in {Undefined, <<"a", "b">>} :
          ses = [NoSession EXCEPT
                   !.started = TRUE,
                   !.url = [ page |-> Undefined, cursors |-> Undefined,
                             pageSize |-> pageSize, search |-> search ],
                   !.committed = [ page |-> Undefined, cursors |-> Undefined,
                                   pageSize |-> pageSize, search |-> search ],
                   !.nav = [control |-> "load", from |-> NaN, served |-> FALSE]]

SessionFrame ==
    UNCHANGED <<baseVars, parse, pmode, table, sinput, pgn, hdr, cmp, walk, built>>

\* the SearchInput's effect runs: the timer of the run before is cleared, and
\* one is set when the text differs from the search of searchParams
EffectTimer(searchParams, searchValue) == SearchInputChanged(searchParams, searchValue)

\* the server renders the page for the URL the browser navigated to; the
\* navigation commits and the client components see the new searchParams.
\* The first render mounts the SearchInput with the URL's search as its text;
\* a later one runs its effect again when the searchParams are other ones.
SessionRender ==
    /\ ses.started
    /\ ~ses.nav.served
    /\ Len(DecodeCursors(ses.url.cursors)) <= MaxHist
    /\ \E users \in SessionAnswers :
          LET v == ConvexTable(ses.url, users)
              r == PageRequest(ses.url)
          IN ses' = [ses EXCEPT
                       !.view = v,
                       !.request = r,
                       !.pending = v.written,
                       !.issued = IF TruthyStr(users.continueCursor)
                                  THEN @ \cup {[ cursor   |-> users.continueCursor,
                                                 numItems |-> r.numItems,
                                                 search   |-> r.search ]}
                                  ELSE @,
                       !.committed = ses.url,
                       !.mounted = TRUE,
                       !.text = IF ses.mounted THEN @ ELSE MountedText(ses.url),
                       !.timer = IF ~ses.mounted
                                 THEN EffectTimer(ses.url, MountedText(ses.url))
                                 ELSE IF ses.url # ses.committed
                                 THEN EffectTimer(ses.url, ses.text)
                                 ELSE @,
                       !.nav.served = TRUE]
    /\ SessionFrame

\* the inline script of the last render runs on the URL the window shows; a
\* navigation on its way keeps its own URL
SessionWriteBack ==
    /\ ses.pending # Undefined
    /\ LET written == InlineScript(ses.committed, ses.pending)
       IN ses' = [ses EXCEPT !.url = IF ses.nav.served THEN written ELSE @,
                             !.committed = written,
                             !.timer = IF written # ses.committed
                                       THEN EffectTimer(written, ses.text) ELSE @,
                             !.pending = Undefined]
    /\ SessionFrame

\* a navigation pushed by a control of the page as it was last rendered, which
\* stays on the screen until a navigation commits; one still on its way is
\* superseded
SessionNavigate(control, params) ==
    /\ ses.mounted
    /\ ses.moves < MaxMoves
    /\ ses' = [ses EXCEPT
                 !.url = params,
                 !.nav = [ control |-> control, from |-> ses.view.currentPage,
                           served |-> FALSE ],
                 !.moves = @ + 1]
    /\ SessionFrame

SessionClickFirst ==
    /\ ~NextTablePagination(ses.view).first
    /\ SessionNavigate("first", NextGoToFirst(ses.committed).params)

SessionClickPrevious ==
    /\ ~NextTablePagination(ses.view).previous
    /\ SessionNavigate("previous",
                       NextGoToPrevious(ses.committed, ses.view.currentPage).params)

SessionClickNext ==
    /\ ~NextTablePagination(ses.view).next
    /\ SessionNavigate("next",
                       NextGoToNext(ses.committed, ses.view.hasMore, ses.view.currentPage,
                                    ses.view.maxPageReached).params)

\* SearchInput handleChange / handleClear of the mounted SearchInput: the
\* text is set and the effect runs again
SessionType ==
    /\ ses.mounted
    /\ \E searchValue \in SessionTexts \ {ses.text} :
          ses' = [ses EXCEPT !.text = searchValue,
                             !.timer = EffectTimer(ses.committed, searchValue)]
    /\ SessionFrame

\* the SearchInput's pending timer fires: router.push of the parameters built
\* from the searchParams of the effect's last run and the text; a navigation
\* still on its way is superseded.  No timer is pending after it until the
\* effect runs again.
SessionSearch ==
    /\ ses.mounted
    /\ ses.timer
    /\ ses.moves < MaxMoves
    /\ ses' = [ses EXCEPT
                 !.url = SearchInputPush(ses.committed, ses.text),
                 !.timer = FALSE,
                 !.pending = Undefined,
                 !.nav = [ control |-> "search", from |-> ses.view.currentPage,
                           served |-> FALSE ],
                 !.moves = @ + 1]
    /\ SessionFrame

\* the browser is sent to the URL it shows with another pageSize parameter
SessionPageSize ==
    \E pageSize \in SessionSizes \ {ses.committed.pageSize} :
       SessionNavigate("pageSize", [ses.committed EXCEPT !.pageSize = pageSize])

NextSession ==
    \/ SessionRender
    \/ SessionWriteBack
    \/ SessionClickFirst
    \/ SessionClickPrevious
    \/ SessionClickNext
    \/ SessionType
    \/ SessionSearch
    \/ SessionPageSize

SpecSession == InitSession /\ [][NextSession]_vars

\* ---------------------------------------------------- the three parsers ----
\* One query string read by parseTableParams, by the Next.js useTableState
\* hook and by the cursor-history page.
\* the page's own parsing: requestedPage and pageSize
InlineParse(params) ==
    [page |-> RequestedPage(params.page), pageSize |-> PagePageSize(params)]

InitComparison ==
    /\ OldIdle
    /\ HeaderIdle /\ SessionIdle /\ WalkIdle /\ BuiltIdle
    /\ \E searchParams \in ParseArguments :
          cmp = [NoComparison EXCEPT !.searchParams = searchParams]

\* the same request reaches the three parsers
CompareCall ==
    /\ ~cmp.called
    /\ cmp' = [cmp EXCEPT !.called = TRUE,
                          !.parsed = ParseTableParams(cmp.searchParams),
                          !.hook = HookState(cmp.searchParams),
                          !.inline = InlineParse(cmp.searchParams)]
    /\ UNCHANGED <<baseVars, parse, pmode, table, sinput, pgn, hdr, ses, walk, built>>

NextComparison == CompareCall

SpecComparison == InitComparison /\ [][NextComparison]_vars

\* ----------------------------------- SearchInput beside other controls ----
\* The SearchInput components as above, and the URL changed by another
\* control of the page while the Next.js SearchInput is mounted: a pagination
\* or sort click pushes a URL with the same search, the browser's back and
\* forward buttons restore a URL with any earlier search.
ExternalUrls == [page : {<<"2">>, <<"4">>}, search : {Undefined, <<"a">>}]

\* useSearchParams() returns the new parameters, the component renders and the
\* debounce effect runs again (searchParams is one of its dependencies)
ExternalChange ==
    /\ sinput.impl = "next"
    /\ sinput.nextId <= MaxKeys
    /\ \E store \in ExternalUrls \ {sinput.store} :
          sinput' = RunEffect([sinput EXCEPT
                                 !.store = store,
                                 !.last = IF store.search = sinput.store.search
                                          THEN "paginate" ELSE "history"])
    /\ UNCHANGED <<baseVars, moreVars, parse, pmode, table, pgn>>

NextInputUrl ==
    \/ NextInput
    \/ ExternalChange

SpecInputUrl == InitInput /\ [][NextInputUrl]_vars

\* ------------------------------------------- paging through a list ----
\* A caller pages through a list with paginateResults: the first call with
\* cursor null, every further call with the continueCursor of the one before.
InitWalk ==
    /\ OldIdle
    /\ HeaderIdle /\ SessionIdle /\ ComparisonIdle /\ BuiltIdle
    /\ \E allResults \in RowLists, numItems \in 1..MaxSize :
          walk = [NoWalk EXCEPT !.started = TRUE, !.allResults = allResults,
                                !.numItems = Int2Num(numItems)]

\* one call of paginateResults; the caller keeps the page and the cursor
WalkCall ==
    /\ walk.started
    /\ ~walk.done
    /\ walk.calls <= MaxCount
    /\ LET result == PaginateResults(walk.allResults,
                                     [numItems |-> walk.numItems, cursor |-> walk.cursor])
       IN walk' = [walk EXCEPT !.result = result,
                               !.cursor = result.continueCursor,
                               !.pages = @ \o result.page,
                               !.calls = @ + 1,
                               !.done = result.isDone]
    /\ UNCHANGED <<baseVars, parse, pmode, table, sinput, pgn, hdr, ses, cmp, built>>

NextWalk == WalkCall

SpecWalk == InitWalk /\ [][NextWalk]_vars

\* ------------------------------------ building the query parameters ----
\* variant: the page size left out when it is 1
BuildTableParams_SizeOne(state) ==
    [ page      |-> IF "page" \in DOMAIN state /\ state.page # Int2Num(1)
                    THEN NumToStr(state.page) ELSE Undefined,
      pageSize  |-> IF "pageSize" \in DOMAIN state /\ state.pageSize # Int2Num(1)
                    THEN NumToStr(state.pageSize) ELSE Undefined,
      sortBy    |-> IF TruthyStr(state.sortBy) THEN state.sortBy ELSE Undefined,
      sortOrder |-> IF TruthyStr(state.sortOrder) /\ state.sortOrder # Asc
                    THEN state.sortOrder ELSE Undefined,
      search    |-> IF TruthyStr(state.search) THEN state.search ELSE Undefined ]

\* buildTableParams(state): the URLSearchParams as a record, a parameter that
\* was not set reading as undefined; a number the state does not hold is a
\* field the record does not have
BuildTableParams(state) ==
    [ page      |-> IF "page" \in DOMAIN state /\ state.page # Int2Num(1)
                    THEN NumToStr(state.page) ELSE Undefined,
      pageSize  |-> IF "pageSize" \in DOMAIN state /\ state.pageSize # Int2Num(10)
                    THEN NumToStr(state.pageSize) ELSE Undefined,
      sortBy    |-> IF TruthyStr(state.sortBy) THEN state.sortBy ELSE Undefined,
      sortOrder |-> IF TruthyStr(state.sortOrder) /\ state.sortOrder # Asc
                    THEN state.sortOrder ELSE Undefined,
      search    |-> IF TruthyStr(state.search) THEN state.search ELSE Undefined ]

\* the table states handed to buildTableParams: the valid ones and, beside
\* them, page 0, page size 0, an unknown sort order and empty texts
BuiltPages == { Int2Num(k) : k \in (0..MaxPage) \cup {MaxCount} }
BuiltSizes == { Int2Num(k) : k \in (0..MaxSize) \cup {MaxCount} }
BuiltStates ==
    [ page : BuiltPages, pageSize : BuiltSizes,
      sortBy : { Undefined, <<>>, <<"n", "a", "m", "e">> },
      sortOrder : { Asc, Desc, <<"u", "p">> },
      search : { Undefined, <<>>, <<"a", "b">>, <<" ">> } ]

\* TableState as the data model describes it
IsWhole(n) == IsFinite(n) /\ n.v % Scale = 0
ValidTableState(state) ==
    /\ IsWhole(state.page) /\ state.page.v >= Scale
    /\ IsWhole(state.pageSize) /\ state.pageSize.v >= Scale
    /\ state.sortOrder \in {Asc, Desc}
    /\ state.sortBy # <<>>
    /\ state.search # <<>>

InitBuilt ==
    /\ OldIdle
    /\ HeaderIdle /\ SessionIdle /\ ComparisonIdle /\ WalkIdle
    /\ \E state \in BuiltStates : built = [NoBuilt EXCEPT !.state = state]

\* parseTableParams(buildTableParams(state))
BuildCall ==
    /\ ~built.called
    /\ LET params == BuildTableParams(built.state)
       IN built' = [built EXCEPT !.called = TRUE,
                                 !.params = params,
                                 !.parsed = ParseTableParams(params)]
    /\ UNCHANGED <<baseVars, parse, pmode, table, sinput, pgn, hdr, ses, cmp, walk>>

NextBuilt == BuildCall

SpecBuilt == InitBuilt /\ [][NextBuilt]_vars

\* ===================================================== properties ====
\* a cursor the backend issued that is there: neither null nor empty
Present(c) == c # Null /\ c # <<>>

\* the page number k in the units of currentPage
PageNo(k) == k * Scale

\* C1: the effective page of every request is a number between 1 and
\* maxPageReached, whatever the raw page and cursors parameters are.
C1_EffectivePageInRange ==
    view.shown =>
        /\ ~view.currentPage.nan
        /\ PageNo(1) <= view.currentPage.v
        /\ view.currentPage.v <= PageNo(view.maxPageReached)

\* a request far beyond the history, served as the last recorded page
C1_Witness ==
    /\ view.shown
    /\ ~ToNumber(view.params.page).nan
    /\ ToNumber(view.params.page).v > PageNo(Len(view.cursorHistory) + 10)
    /\ Len(view.cursorHistory) >= 2
    /\ view.currentPage.v = PageNo(Len(view.cursorHistory))

\* C2: the next cursor is appended exactly when the effective page is the
\* decoded history length, the cursor is present and isDone is false; otherwise
\* the updated history is the decoded one. At most one entry per fetch, none
\* when isDone.
C2_ExtensionRule ==
    view.shown =>
        LET frontier == view.currentPage.v = PageNo(Len(view.cursorHistory))
            extend   == /\ frontier
                        /\ Present(view.users.continueCursor)
                        /\ ~view.users.isDone
        IN /\ extend => view.updatedCursorHistory
                            = Append(view.cursorHistory, view.users.continueCursor)
           /\ ~extend => view.updatedCursorHistory = view.cursorHistory
           /\ Len(view.updatedCursorHistory) <= Len(view.cursorHistory) + 1
           /\ view.users.isDone => view.maxPageReached = Len(view.cursorHistory)

\* a frontier fetch that recorded the next cursor
C2_Witness ==
    /\ view.shown
    /\ Len(view.cursorHistory) >= 2
    /\ view.updatedCursorHistory = Append(view.cursorHistory, view.users.continueCursor)

\* C3 as stated: the history carried by the URL is only ever extended at its
\* end: every render, write-back and click keeps each recorded entry at its
\* index.
C3_Original ==
    [][ LET old == DecodeCursors(url.cursors)
            new == DecodeCursors(url'.cursors)
        IN /\ Len(new) >= Len(old)
           /\ \A i \in 1..Len(old) : new[i] = old[i] ]_vars

\* a sequence entry that is an absent cursor or a token the encoding keeps apart:
\* non-empty, without the separator, and not the word "null"
PlainEntry(c) ==
    \/ c = Null
    \/ /\ c # <<>>
       /\ c # NullToken
       /\ \A i \in DOMAIN c : c[i] # Comma

\* C4 as stated: encoding then decoding any history yields the same history.
C4_Original ==
    view.shown => DecodeCursors(view.written) = view.updatedCursorHistory

\* C4 amended: encoding then decoding yields the same history when every token
\* is non-empty, holds no comma and is not the word "null".
C4_RoundTrip ==
    (view.shown /\ \A i \in DOMAIN view.updatedCursorHistory :
                        PlainEntry(view.updatedCursorHistory[i]))
        => DecodeCursors(view.written) = view.updatedCursorHistory

\* a history of an absent cursor and tokens, written and read back
C4_Witness ==
    /\ view.shown
    /\ Len(view.updatedCursorHistory) >= 3
    /\ \A i \in DOMAIN view.updatedCursorHistory :
          PlainEntry(view.updatedCursorHistory[i])
    /\ \E i \in DOMAIN view.updatedCursorHistory : view.updatedCursorHistory[i] = Null
    /\ \E i \in DOMAIN view.updatedCursorHistory : view.updatedCursorHistory[i] # Null

\* the backend answers the same cursor the same way in the last two renders
SameBackend == view.cursor = prev.cursor => view.users = prev.users

\* C5 as stated: a navigation repeated with the history the first request's
\* script wrote back, the backend answering the same cursor the same way, gives
\* the same effective page, the same cursor sent and the same maxPageReached.
C5_Original ==
    (view.shown /\ prev.shown /\ SameBackend) =>
        /\ view.currentPage = prev.currentPage
        /\ view.cursor = prev.cursor
        /\ view.maxPageReached = prev.maxPageReached

\* C6 as stated: a fetch of a page whose index is at most the history length
\* writes back a history of the length the request carried.
C6_Original ==
    (view.shown /\ view.currentPage.v <= PageNo(Len(view.cursorHistory))) =>
        Len(DecodeCursors(view.written)) = Len(DecodeCursors(view.params.cursors))

\* C6 amended: the same for a page strictly before the end of the history.
C6_RevisitKeepsLength ==
    (view.shown /\ view.currentPage.v < PageNo(Len(view.cursorHistory))) =>
        /\ Len(DecodeCursors(view.written)) = Len(DecodeCursors(view.params.cursors))
        /\ view.maxPageReached = Len(view.cursorHistory)

\* an earlier page revisited while the backend offers a next cursor
C6_Witness ==
    /\ view.shown
    /\ view.currentPage.v < PageNo(Len(view.cursorHistory))
    /\ Present(view.users.continueCursor)
    /\ ~view.users.isDone
    /\ view.maxPageReached = Len(view.cursorHistory)

\* C7 as stated: the history length equals the highest page shown so far.
C7_Original ==
    view.shown => PageNo(view.maxPageReached) = maxShown

\* C7 amended: the history length is at least the highest page shown so far,
\* and, while no cursor the backend answered holds a comma or a backslash, at
\* most one more (the page whose cursor is recorded but not yet visited).
C7_LengthTracksHighestPage ==
    view.shown =>
        /\ maxShown <= PageNo(view.maxPageReached)
        /\ plain => /\ PageNo(view.maxPageReached) <= maxShown + PageNo(1)
                    /\ PageNo(Len(DecodeCursors(url.cursors))) <= maxShown + PageNo(1)

\* page 2 is the highest page shown and the history already has three entries
C7_Witness ==
    /\ view.shown
    /\ plain
    /\ maxShown = PageNo(2)
    /\ view.maxPageReached = 3

\* C8: the cursor sent to the backend is the decoded entry at index
\* effectivePage - 1, the absent cursor when that entry is "null", empty or
\* missing; "null,5,12" with page 5 gives page 3 and cursor "12".
C8_CursorLookup ==
    view.shown =>
        LET h == DecodeCursors(view.params.cursors)
            p == view.currentPage.v
            k == p \div Scale
        IN /\ IF p % Scale = 0 /\ k \in 1..Len(h) /\ Present(h[k])
              THEN view.cursor = h[k]
              ELSE view.cursor = Null
           /\ (view.params.cursors = ExampleCursors /\ view.params.page = <<"5">>)
                 => view.currentPage.v = PageNo(3) /\ view.cursor = <<"1", "2">>

\* the documented example
C8_Witness ==
    /\ view.shown
    /\ view.params.cursors = ExampleCursors
    /\ view.params.page = <<"5">>
    /\ view.cursor = <<"1", "2">>

\* C9 as stated: in both components, for every currentPage, maxPageReached and
\* hasMore, Next is enabled exactly when hasMore or currentPage < maxPageReached,
\* Previous and First exactly when currentPage > 1; a click navigates only from
\* an enabled control, and the Next.js handlers go to currentPage + 1,
\* currentPage - 1 and 1.
C9_Original ==
    pag # NoProps =>
        LET cp       == pag.currentPage
            mayNext  == pag.hasMore \/ NumLt(cp, Int2Num(pag.maxPageReached))
            mayBack  == NumGt(cp, Int2Num(1))
            target   == CASE nav.control = "next" -> NumToStr(NumAdd(cp, Int2Num(1)))
                          [] nav.control = "previous" -> NumToStr(NumSub(cp, Int2Num(1)))
                          [] OTHER -> <<"1">>
        IN /\ \A flags \in {pag.react, pag.next} :
                /\ ~flags.next <=> mayNext
                /\ ~flags.previous <=> mayBack
                /\ ~flags.first <=> mayBack
           /\ nav.pushed =>
                /\ nav.control = "next" => mayNext
                /\ nav.control \in {"previous", "first"} => mayBack
                /\ nav.impl = "next" => nav.page = target

Unsorted(v) == ~TruthyStr(v.sortBy)
SortedBy(v, columnKey, order) == v.sortBy = columnKey /\ v.sortOrder = order

\* C10: three successive clicks on one column starting from Unsorted give
\* (column, asc), (column, desc), Unsorted; a click on a column other than the
\* sorted one gives (that column, asc); each click starts from the state the
\* previous one left.
C10_Original ==
    /\ \A i \in DOMAIN trail :
          /\ trail[i].before.sortBy # trail[i].col
                => SortedBy(trail[i].after, trail[i].col, Asc)
          /\ i > 1 => trail[i].before = trail[i - 1].after
    /\ \A i \in DOMAIN trail :
          ( /\ i + 2 <= Len(trail)
            /\ Unsorted(trail[i].before)
            /\ trail[i + 1].col = trail[i].col
            /\ trail[i + 2].col = trail[i].col )
          => /\ SortedBy(trail[i].after, trail[i].col, Asc)
             /\ SortedBy(trail[i + 1].after, trail[i].col, Desc)
             /\ Unsorted(trail[i + 2].after)

\* a number that is a whole number of at least 1
PositiveInteger(n) == IsFinite(n) /\ n.v >= Scale /\ n.v % Scale = 0

\* the raw text is the decimal form of a whole number of at least 1
ValidPositiveInteger(raw) == PositiveInteger(ToNumber(raw))

\* C11 as stated: parseTableParams returns a page and a pageSize that are
\* integers of at least 1; a page that is not a valid positive integer becomes
\* 1, a pageSize that is not becomes 10; {page: "-3", pageSize: "abc"} gives
\* page 1, pageSize 10, sortOrder "asc".
C11_Original ==
    parse.called =>
        /\ PositiveInteger(parse.state.page)
        /\ PositiveInteger(parse.state.pageSize)
        /\ ~ValidPositiveInteger(parse.searchParams.page)
              => parse.state.page = Int2Num(1)
        /\ ~ValidPositiveInteger(parse.searchParams.pageSize)
              => parse.state.pageSize = Int2Num(10)
        /\ ( /\ parse.searchParams.page = <<"-", "3">>
             /\ parse.searchParams.pageSize = <<"a", "b", "c">> )
              => /\ parse.state.page = Int2Num(1)
                 /\ parse.state.pageSize = Int2Num(10)
                 /\ parse.state.sortOrder = Asc

\* C12: parseTableParams returns the given sortOrder only when it is exactly
\* "asc" or "desc" and "asc" for anything else; sortBy and search are returned
\* unchanged when non-empty and absent otherwise.
C12_SortOrderAndText ==
    parse.called =>
        LET given == parse.searchParams
            got   == parse.state
        IN /\ got.sortOrder = (IF given.sortOrder \in {Asc, Desc}
                                THEN given.sortOrder ELSE Asc)
           /\ got.sortBy = (IF given.sortBy \notin {Undefined, <<>>}
                             THEN given.sortBy ELSE Undefined)
           /\ got.search = (IF given.search \notin {Undefined, <<>>}
                             THEN given.search ELSE Undefined)

\* "ASC" in capitals falls back to "asc" while sortBy and search pass through
C12_Witness ==
    /\ parse.called
    /\ parse.searchParams.sortOrder = <<"A", "S", "C">>
    /\ parse.state.sortOrder = Asc
    /\ parse.state.sortBy = <<"n", "a", "m", "e">>
    /\ parse.state.search = <<"a", "b">>

\* the number of pages the specification gives: the quotient rounded up, at least 1
ExpectedTotalPages(totalCount, pageSize) == MaxOf(1, CeilDiv(totalCount, pageSize))

\* C13 as stated: calculateTotalPages, the React page-based TablePagination and
\* the Next.js page-mode TablePagination all compute
\* totalPages = ceil(totalCount / pageSize), never less than 1, also for
\* totalCount = 0.
C13_Original ==
    (pmode.rendered /\ pmode.totalCount >= 0 /\ pmode.pageSize >= 1) =>
        /\ pmode.totalPages = ExpectedTotalPages(pmode.totalCount, pmode.pageSize)
        /\ pmode.totalPages >= 1

\* C14 as stated: in page mode Previous is enabled exactly when page > 1 and
\* Next exactly when page < totalPages (totalCount 25, pageSize 10, page 3:
\* totalPages 3, Next disabled, Previous enabled); from a page in 1..totalPages
\* every click on an enabled control moves the page, as the caller or the URL
\* holds it, by exactly one and keeps it in 1..totalPages.
C14_Original ==
    pmode.impl \in {"react", "next"} =>
        LET totalPages == ExpectedTotalPages(pmode.totalCount, pmode.pageSize)
            InRange(p) == NumGe(p, Int2Num(1)) /\ NumLe(p, Int2Num(totalPages))
        IN /\ pmode.mounted =>
                /\ ~pmode.disabled.previous <=> NumGt(pmode.page, Int2Num(1))
                /\ ~pmode.disabled.next <=> NumLt(pmode.page, Int2Num(totalPages))
                /\ ( /\ pmode.totalCount = 25 /\ pmode.pageSize = 10
                     /\ pmode.page = Int2Num(3) )
                      => /\ pmode.totalPages = 3
                         /\ pmode.disabled.next
                         /\ ~pmode.disabled.previous
           /\ InRange(pmode.start) =>
                /\ InRange(pmode.store)
                /\ pmode.clicked = "next" => pmode.store = NumAdd(pmode.from, Int2Num(1))
                /\ pmode.clicked = "previous" => pmode.store = NumSub(pmode.from, Int2Num(1))

\* the table state shown after, and before, the last operation
ViewAfter == TableView(table.impl, table.store)
ViewBefore == TableView(table.impl, table.before)

\* C15 as stated: every change of the search text, to a new text or to empty,
\* through setSearch of either hook or through the Next.js SearchInput, gives
\* page 1 together with the new search text, whatever the page was.
C15_Original ==
    table.op \in {"setSearch", "searchInput"} =>
        /\ ViewAfter.page = Int2Num(1)
        /\ ViewAfter.search = OrUndefined(table.text)

\* C16: setPageSize(n) of either hook gives page 1 and pageSize max(1, n),
\* whatever the page was, and leaves sortBy, sortOrder and search as they were.
C16_SetPageSize ==
    table.op = "setPageSize" =>
        /\ ViewAfter.page = Int2Num(1)
        /\ ViewAfter.pageSize
              = (IF table.num.v >= PageNo(1) THEN table.num ELSE Int2Num(1))
        /\ ViewAfter.sortBy = ViewBefore.sortBy
        /\ ViewAfter.sortOrder = ViewBefore.sortOrder
        /\ ViewAfter.search = ViewBefore.search

\* the Next.js hook on page 4 of a sorted, searched table, called with 0
C16_Witness ==
    /\ table.op = "setPageSize"
    /\ table.impl = "hook"
    /\ table.num = Num(0)
    /\ ViewBefore.page = Int2Num(4)
    /\ ViewBefore.sortOrder = Desc
    /\ ViewBefore.search = <<"a", "b">>
    /\ ViewAfter.pageSize = Int2Num(1)
    /\ table.store.page = <<"1">>

\* the store's entries other than those named
SameExcept(names) ==
    \A k \in DOMAIN table.store \ names : table.store[k] = table.before[k]

\* C19: setSort, toggleSort and a header sort click leave page, pageSize, search
\* and every other URL parameter unchanged; setPage changes nothing but the page.
C19_SortAndPageFrame ==
    /\ table.op \in {"setSort", "toggleSort", "headerSort"} =>
          /\ SameExcept({"sortBy", "sortOrder"})
          /\ ViewAfter.page = ViewBefore.page
          /\ ViewAfter.pageSize = ViewBefore.pageSize
          /\ ViewAfter.search = ViewBefore.search
    /\ table.op = "setPage" =>
          /\ SameExcept({"page"})
          /\ ViewAfter.pageSize = ViewBefore.pageSize
          /\ ViewAfter.sortBy = ViewBefore.sortBy
          /\ ViewAfter.sortOrder = ViewBefore.sortOrder
          /\ ViewAfter.search = ViewBefore.search

\* a header click that changed the sort of a URL on page 4 carrying cursors
C19_Witness ==
    /\ table.op = "headerSort"
    /\ table.store.sortBy # table.before.sortBy
    /\ table.before.page = <<"4">>
    /\ table.store.page = <<"4">>
    /\ table.store.cursors = <<"n", "u", "l", "l", ",", "5">>
    /\ table.store.search = <<"a", "b">>

\* the pending timers whose callback will emit the text now shown
WillEmitShown ==
    {t \in sinput.timers : t.text = sinput.text /\ TimerEmits(sinput.impl, t)}

\* the value the component was last given: the prop, or the URL's search
GivenValue == SearchValue(sinput.store)

\* C17 as stated: a keystroke cancels the pending update and schedules a new
\* one, at most one update is pending at any time, no intermediate value of a
\* burst is emitted, and after the quiet period exactly one update carrying the
\* last typed value fires.
C17_Original ==
    /\ Cardinality(sinput.timers) <= 1
    /\ \A i \in DOMAIN sinput.emitted :
          sinput.emitted[i].timer => sinput.emitted[i].text = sinput.emitted[i].shown
    /\ sinput.last = "type" =>
          /\ sinput.timers = WillEmitShown
          /\ Cardinality(WillEmitShown) = 1

\* C17 amended: at most one update is pending at any time; a keystroke leaves
\* no timer but its own; a timer never emits a text other than the one shown
\* when it expires; after a keystroke exactly one update carrying the typed
\* text is pending when that text differs from the value the component was
\* given, and none is emitted when it equals it (the React timer then expires
\* silently, the Next.js component sets no timer); an expiry that emitted
\* leaves nothing pending.
C17_Debounce ==
    /\ Cardinality(sinput.timers) <= 1
    /\ \A i \in DOMAIN sinput.emitted :
          sinput.emitted[i].timer => sinput.emitted[i].text = sinput.emitted[i].shown
    /\ sinput.last = "type" =>
          /\ \A t \in sinput.timers : t.text = sinput.text
          /\ sinput.impl = "react" => Cardinality(sinput.timers) = 1
          /\ sinput.text # GivenValue =>
                sinput.timers = WillEmitShown /\ Cardinality(WillEmitShown) = 1
          /\ sinput.text = GivenValue => WillEmitShown = {}
    /\ sinput.last = "fire" => sinput.timers = {}

\* a burst of three keystrokes, then one update with the text typed last
C17_Witness ==
    /\ sinput.last = "fire"
    /\ Len(sinput.emitted) = 1
    /\ sinput.emitted[1].timer
    /\ sinput.emitted[1].burst >= 3
    /\ sinput.emitted[1].text = sinput.text
    /\ sinput.timers = {}


\* C18: for a list and whole numbers page >= 1 and pageSize >= 1,
\* paginateResults with numItems = pageSize and cursor = getPageOffset(page,
\* pageSize) returns the elements at indices (page-1)*pageSize up to
\* min(page*pageSize, length)-1 in order, isDone exactly when
\* page*pageSize >= length, and continueCursor = getPageOffset(page+1, pageSize)
\* when isDone is false.
C18_PageOfResults ==
    pgn.called =>
        LET p   == pgn.page.v \div Scale
            n   == pgn.pageSize.v \div Scale
            len == Len(pgn.allResults)
            lo  == (p - 1) * n
            hi  == MinOf(p * n, len) - 1
        IN /\ pgn.result.page = [i \in 1..(IF hi >= lo THEN hi - lo + 1 ELSE 0)
                                   |-> pgn.allResults[lo + i]]
           /\ pgn.result.isDone <=> p * n >= len
           /\ ~pgn.result.isDone =>
                 pgn.result.continueCursor
                    = GetPageOffset(Int2Num(p + 1), pgn.pageSize)

\* page 2 of 25 rows by 10: rows 11 to 20, more to come from offset "20"
C18_Witness ==
    /\ pgn.called
    /\ Len(pgn.allResults) = 25
    /\ pgn.page = Int2Num(2)
    /\ pgn.pageSize = Int2Num(10)
    /\ Len(pgn.result.page) = 10
    /\ pgn.result.page[1] = pgn.allResults[11]
    /\ ~pgn.result.isDone
    /\ pgn.result.continueCursor = <<"2", "0">>

\* C20: in every history reachable from a first request without `cursors`, by
\* fetches, write-backs and First/Previous/Next clicks, index 0 is the absent
\* cursor, and a render of page 1 fetches with the absent cursor.
C20_FirstEntryAbsent ==
    /\ DecodeCursors(url.cursors)[1] = Null
    /\ pending # Undefined => DecodeCursors(pending)[1] = Null
    /\ view.shown =>
          /\ view.cursorHistory[1] = Null
          /\ view.updatedCursorHistory[1] = Null
          /\ view.currentPage = Int2Num(1) => view.cursor = Null

\* First clicked on a later page: page 1 fetched again with the absent cursor
\* while the history holds the cursor of page 2
C20_Witness ==
    /\ view.shown
    /\ view.currentPage = Int2Num(1)
    /\ view.params.page = <<"1">>
    /\ maxShown >= PageNo(2)
    /\ Len(view.cursorHistory) >= 2
    /\ view.cursorHistory[2] # Null
    /\ view.cursor = Null

\* C21: decoding the raw `cursors` parameter never fails: an absent or empty
\* parameter decodes to the one-entry history [absent], every raw string to a
\* history of at least one entry, each entry the absent cursor or a text, and
\* the request is served as a page within the history with the absent cursor
\* or a token of the history.
C21_DecodeNeverFails ==
    LET decoded == DecodeCursors(url.cursors)
    IN /\ Len(decoded) >= 1
       /\ \A i \in DOMAIN decoded : decoded[i] # Undefined
       /\ url.cursors \in {Undefined, <<>>} => decoded = <<Null>>
       /\ view.shown =>
             /\ view.cursorHistory = DecodeCursors(view.params.cursors)
             /\ Len(view.cursorHistory) >= 1
             /\ ~view.currentPage.nan
             /\ view.currentPage.v >= PageNo(1)
             /\ view.currentPage.v <= PageNo(Len(view.cursorHistory))
             /\ \/ view.cursor = Null
                \/ \E i \in DOMAIN view.cursorHistory :
                      view.cursor = view.cursorHistory[i] /\ view.cursor # <<>>

\* an empty `cursors` parameter beside a page far away: served as page 1 with
\* the absent cursor
C21_Witness ==
    /\ view.shown
    /\ view.params.cursors = <<>>
    /\ view.params.page = <<"5">>
    /\ view.cursorHistory = <<Null>>
    /\ view.currentPage = Int2Num(1)
    /\ view.cursor = Null

\* the direction a sort button's label names, when it names one
NamedDirection(label, key) ==
    IF label = SortByText \o ColumnOf(key).label \o <<" ">> \o Ascending THEN Asc
    ELSE IF label = SortByText \o ColumnOf(key).label \o <<" ">> \o Descending THEN Desc
    ELSE Undefined

\* C22 as stated: the aria-label of a sort button names the sort state a click
\* on it produces, and the aria-sort of every header cell is the column's
\* current direction (that of the render it belongs to), "none" when the column
\* is not the sorted one.
C22_Original ==
    hdr.impl # "none" =>
        /\ \A c \in HeaderColumns :
              hdr.aria[c.key].sort
                 = (IF ~c.sortable \/ hdr.rendered.sortBy # c.key THEN NoneText
                    ELSE IF HeaderPropsOf(hdr.impl, hdr.rendered).sortOrder = Desc
                         THEN Descending ELSE Ascending)
        /\ \A i \in DOMAIN hdr.clicks :
              LET k == hdr.clicks[i]
              IN /\ NamedDirection(k.label, k.col) # Undefined
                       => SortedBy(k.after, k.col, NamedDirection(k.label, k.col))
                 /\ Unsorted(k.after) => NamedDirection(k.label, k.col) = Undefined

\* C29 as stated: with the React TableHeader's onSort connected to setSort of
\* the React useTableState, three successive clicks on one column starting
\* from Unsorted give (column, asc), (column, desc), then Unsorted with sortBy
\* absent.
C29_Original ==
    hdr.impl = "setSort" =>
        \A i \in DOMAIN hdr.clicks :
           ( /\ i + 2 <= Len(hdr.clicks)
             /\ Unsorted(hdr.clicks[i].before)
             /\ hdr.clicks[i + 1].col = hdr.clicks[i].col
             /\ hdr.clicks[i + 2].col = hdr.clicks[i].col )
           => /\ SortedBy(hdr.clicks[i].after, hdr.clicks[i].col, Asc)
              /\ SortedBy(hdr.clicks[i + 1].after, hdr.clicks[i].col, Desc)
              /\ hdr.clicks[i + 2].after.sortBy = Undefined

\* C23 as stated: whenever Next is enabled on a rendered page, clicking it
\* leads to a render whose effective page is currentPage + 1, never clamped
\* back to currentPage.
C23_Original ==
    (ses.nav.control = "next" /\ ses.nav.served) =>
        ses.view.currentPage = Num(ses.nav.from.v + PageNo(1))

\* C24 as stated: every non-absent cursor sent to the backend was issued by
\* the backend in answer to a request with the same search text and page
\* size; after a search or pageSize change the next fetch uses the absent
\* cursor.
C24_Original ==
    ses.nav.served =>
        /\ ses.request.cursor # Null =>
              \E a \in ses.issued :
                 /\ a.cursor = ses.request.cursor
                 /\ a.search = ses.request.search
                 /\ a.numItems = ses.request.numItems
        /\ ses.nav.control \in {"search", "pageSize"} => ses.request.cursor = Null

\* C25 as stated: parseTableParams, the Next.js useTableState hook and the
\* cursor-history page's inline parsing give the same page, pageSize and
\* sortOrder for the same raw strings; a zero, negative or non-numeric pageSize
\* gives 10 and an unrecognised sortOrder gives "asc" in all of them.
C25_Original ==
    cmp.called =>
        LET raw == cmp.searchParams
            n   == ToNumber(raw.pageSize)
        IN /\ cmp.hook.page = cmp.parsed.page
           /\ cmp.inline.page = cmp.parsed.page
           /\ cmp.hook.pageSize = cmp.parsed.pageSize
           /\ cmp.inline.pageSize = cmp.parsed.pageSize
           /\ cmp.hook.sortOrder = cmp.parsed.sortOrder
           /\ (n.nan \/ n.v <= 0) =>
                 /\ cmp.parsed.pageSize = Int2Num(10)
                 /\ cmp.hook.pageSize = Int2Num(10)
                 /\ cmp.inline.pageSize = Int2Num(10)
           /\ raw.sortOrder \notin {Asc, Desc} =>
                 cmp.parsed.sortOrder = Asc /\ cmp.hook.sortOrder = Asc

\* the input is at rest: it shows the search of the URL (the value it was
\* given), no timer is pending and no update is on its way
AtRest ==
    /\ sinput.text = GivenValue
    /\ sinput.timers = {}
    /\ sinput.inflight = <<>>

\* C26 as stated: the Next.js SearchInput pushes only after the user edited
\* the text: a URL change made by another control (pagination or sort click,
\* browser back or forward) while the input is at rest starts no timer, so no
\* navigation that rewrites `search` or sets `page` to 1 follows from it.
C26_Original ==
    [][ (sinput'.last \in {"paginate", "history"} /\ AtRest) => sinput'.timers = {} ]_vars

\* the texts of the onChange calls so far, none equal to the call before it
NoRepeat(emitted) ==
    \A i \in DOMAIN emitted : i > 1 => emitted[i].text # emitted[i - 1].text

\* C27 as stated: in the React SearchInput, under any interleaving of
\* keystrokes, Clear, timer expiry and the parent's update of `value`, typed
\* text is never discarded (an update of the prop never replaces the text the
\* input shows) and no onChange call repeats the value of the call before it.
C27_Original ==
    [][ sinput.impl = "react" =>
           /\ sinput'.last = "deliver" => sinput'.text = sinput.text
           /\ NoRepeat(sinput'.emitted) ]_vars

\* C28: for every list and numItems >= 1, the calls of paginateResults that
\* start with cursor null and pass each continueCursor on reach isDone after
\* at most max(1, ceil(length / numItems)) calls: every call that is not the
\* last returns numItems further elements, the pages put together are the list
\* in order, every element once, and isDone holds exactly when continueCursor
\* is null.
C28_WalkCoversList ==
    walk.started =>
        LET len == Len(walk.allResults)
            n   == walk.numItems.v \div Scale
        IN /\ walk.calls <= MaxOf(1, CeilDiv(len, n))
           /\ Len(walk.pages) <= len
           /\ walk.pages = SubSeq(walk.allResults, 1, Len(walk.pages))
           /\ walk.calls > 0 =>
                 /\ walk.result.isDone <=> walk.result.continueCursor = Null
                 /\ walk.done <=> walk.result.isDone
                 /\ ~walk.done => Len(walk.pages) = walk.calls * n
           /\ walk.done => walk.pages = walk.allResults

\* 25 rows paged by 10: three calls, the last with 5 rows and no cursor
C28_Witness ==
    /\ walk.done
    /\ Len(walk.allResults) = 25
    /\ walk.numItems = Int2Num(10)
    /\ walk.calls = 3
    /\ Len(walk.result.page) = 5
    /\ walk.cursor = Null
    /\ walk.pages = walk.allResults

\* C30: for every valid table state (whole page >= 1, whole pageSize >= 1,
\* sortOrder asc or desc, sortBy and search absent or non-empty),
\* parseTableParams applied to the parameters that buildTableParams produced
\* returns the same state, also when parameters were left out for being the
\* default.
C30_BuildParseRoundTrip ==
    (built.called /\ ValidTableState(built.state)) => built.parsed = built.state

\* page 1, page size 10 and ascending order are left out and come back as the
\* defaults, the sort column and the search text are carried
C30_Witness ==
    /\ built.called
    /\ ValidTableState(built.state)
    /\ built.state.page = Int2Num(1)
    /\ built.state.pageSize = Int2Num(10)
    /\ built.state.sortOrder = Asc
    /\ built.state.sortBy = <<"n", "a", "m", "e">>
    /\ built.params.page = Undefined
    /\ built.params.pageSize = Undefined
    /\ built.params.sortOrder = Undefined
    /\ built.params.sortBy = <<"n", "a", "m", "e">>
    /\ built.parsed = built.state

====
